---- MODULE Spec2Model ----
(***************************************************************************)
(* Model of the Cloudflare provider client (src/src/client.ts): one        *)
(* CloudflareClientImpl holding a tenant's credentials, the operations of  *)
(* the CloudflareClient interface, and the two request dispatchers         *)
(* (request for the JSON envelope, requestRaw for text payloads).          *)
(*                                                                         *)
(* An invocation of a client method runs in two steps, separated by the    *)
(* only await of the dispatcher: Invoke derives the auth headers and       *)
(* issues fetch, then Respond (or TransportError) classifies the answer    *)
(* and runs the rest of the method.                                        *)
(*                                                                         *)
(* Strings that the code only interpolates into the URL (zone ids, record  *)
(* ids, keys, query parameters) are not part of the state.                 *)
(***************************************************************************)
EXTENDS Integers, Sequences, FiniteSets, TLC

(***************************************************************************)
(* Bounds of the model.                                                    *)
(***************************************************************************)
\* longest error list of an envelope
MaxErrors == 2
\* longest result array of a list endpoint
MaxItems == 1
\* largest page number of a result_info block
MaxPage == 2
\* number of inbound requests the worker serves
MaxRequests == 2

(***************************************************************************)
(* JavaScript values.                                                      *)
(***************************************************************************)
\* undefined in a string-typed position (a credential field)
UNDEFINED == "undefined"
\* undefined in an object-typed position (result, result_info, errors)
Undefined == [t |-> "undefined"]
\* the null that Headers.get returns for a header that is not there
Null == <<"null">>
\* a number, and the not-a-number value of parseInt
Num(n) == [t |-> "number", n |-> n]
NaN == [t |-> "NaN"]

\* truthiness of a string-typed value: undefined and "" are falsy
Truthy(s) == s /= UNDEFINED /\ s /= ""

(***************************************************************************)
(* Credentials and authentication headers.                                 *)
(***************************************************************************)
\* a field of TenantCredentials is missing, empty, or holds a value
TenantCredentials ==
  [apiToken : {UNDEFINED, "", "token1"},
   email : {UNDEFINED, "", "user@example.com"},
   apiKey : {UNDEFINED, "", "key1"}]

NoCredentialsMessage ==
  "No credentials provided. Include X-CF-API-Token header, or both X-CF-API-Email and X-CF-API-Key headers."

AuthFailedMessage == "Authentication failed. Check your API credentials."

RateLimitMessage == "Rate limit exceeded"

UnknownApiErrorMessage == "Unknown Cloudflare API error"

\* the error classes of utils/errors.ts, as the values their constructors build
AuthenticationError(message) ==
  [name |-> "AuthenticationError", message |-> message]

RateLimitError(message, retryAfter) ==
  [name |-> "RateLimitError", message |-> message, retryAfterSeconds |-> retryAfter]

CloudflareApiError(message, statusCode) ==
  [name |-> "CloudflareApiError", message |-> message, statusCode |-> statusCode]

\* errors of the runtime: JSON.parse failure, property access on undefined or
\* null, rejected fetch
SyntaxError == [name |-> "SyntaxError", message |-> "Unexpected token in JSON"]

TypeError == [name |-> "TypeError", message |-> "Cannot read properties of undefined"]

FetchError == [name |-> "TypeError", message |-> "fetch failed"]

\* what a function call produced
Returned(v) == [tag |-> "returned", value |-> v]
Thrown(e) == [tag |-> "thrown", error |-> e]
Pending == [tag |-> "pending"]

\* a header map is a function from header names to values
NoHeaders == [k \in {} |-> ""]

\* mutant of Spread: the earlier object wins on equal keys
Spread_FirstWins(a, b) ==
  [k \in DOMAIN a \cup DOMAIN b |-> IF k \in DOMAIN a THEN a[k] ELSE b[k]]

\* object spread {...a, ...b}: the later object wins on equal keys
Spread(a, b) ==
  [k \in DOMAIN a \cup DOMAIN b |-> IF k \in DOMAIN b THEN b[k] ELSE a[k]]

BearerHeaders(c) ==
  [k \in {"Authorization", "Content-Type"} |->
     IF k = "Authorization" THEN "Bearer " \o c.apiToken ELSE "application/json"]

LegacyHeaders(c) ==
  [k \in {"X-Auth-Email", "X-Auth-Key", "Content-Type"} |->
     IF k = "X-Auth-Email" THEN c.email
     ELSE IF k = "X-Auth-Key" THEN c.apiKey
     ELSE "application/json"]

\* mutant of getAuthHeaders: the legacy branch tests the email alone
getAuthHeaders_EmailOnly(c) ==
  IF Truthy(c.apiToken) THEN Returned(BearerHeaders(c))
  ELSE IF Truthy(c.email) THEN Returned(LegacyHeaders(c))
  ELSE Thrown(AuthenticationError(NoCredentialsMessage))

\* mutant of getAuthHeaders: the legacy pair is tested before the token
getAuthHeaders_LegacyFirst(c) ==
  IF Truthy(c.email) /\ Truthy(c.apiKey) THEN Returned(LegacyHeaders(c))
  ELSE IF Truthy(c.apiToken) THEN Returned(BearerHeaders(c))
  ELSE Thrown(AuthenticationError(NoCredentialsMessage))

\* mutant of getAuthHeaders: a token does not keep the legacy headers out
getAuthHeaders_BothSchemes(c) ==
  IF Truthy(c.apiToken)
    THEN IF Truthy(c.email) /\ Truthy(c.apiKey)
           THEN Returned(Spread(LegacyHeaders(c), BearerHeaders(c)))
           ELSE Returned(BearerHeaders(c))
  ELSE IF Truthy(c.email) /\ Truthy(c.apiKey) THEN Returned(LegacyHeaders(c))
  ELSE Thrown(AuthenticationError(NoCredentialsMessage))

getAuthHeaders(c) ==
  IF Truthy(c.apiToken)
    THEN Returned(BearerHeaders(c))
  ELSE IF Truthy(c.email) /\ Truthy(c.apiKey)
    THEN Returned(LegacyHeaders(c))
  ELSE Thrown(AuthenticationError(NoCredentialsMessage))

(***************************************************************************)
(* The operations of the CloudflareClient interface, grouped by what the   *)
(* method does with the dispatcher's answer.                               *)
(***************************************************************************)
\* return this.requestRaw(...)
RawMethods == {"exportDnsRecords", "getWorker", "getKvValue"}

\* await this.request(...) and return nothing
VoidMethods ==
  {"deleteWorker", "deleteWorkerRoute", "renameKvNamespace", "deleteKvNamespace",
   "putKvValue", "deleteKvValue", "deleteD1Database", "deleteR2Bucket",
   "deletePagesProject", "deletePagesDeployment", "deleteFirewallRule"}

\* return createPaginatedResponse(response.result, response.result_info)
PaginatedMethods ==
  {"listAccounts", "listAccountMembers", "listZones", "listDnsRecords",
   "listKvNamespaces", "listD1Databases"}

\* return response.result.schedules / response.result.buckets
NestedMethods == {"getWorkerCronTriggers", "listR2Buckets"}

\* return response.result
ResultMethods ==
  {"getUser", "getAccount", "getZone", "createZone", "updateZone", "deleteZone",
   "getZoneSettings", "updateZoneSetting", "activationCheck", "getDnsRecord",
   "createDnsRecord", "updateDnsRecord", "deleteDnsRecord", "importDnsRecords",
   "purgeCache", "listWorkers", "listWorkerRoutes", "createWorkerRoute",
   "listWorkerSecrets", "getKvNamespace", "createKvNamespace", "getD1Database",
   "createD1Database", "queryD1Database", "getR2Bucket", "createR2Bucket",
   "listPagesProjects", "getPagesProject", "createPagesProject",
   "listPagesDeployments", "getPagesDeployment", "rollbackPagesDeployment",
   "listSslCertificates", "listFirewallRules", "getFirewallRule",
   "createFirewallRule", "updateFirewallRule", "listFilters", "listWafPackages",
   "listWafRules", "updateWafRule", "listLoadBalancers", "getLoadBalancer",
   "listLoadBalancerPools", "getLoadBalancerPool", "listLoadBalancerMonitors",
   "getZoneAnalytics", "getDnsAnalytics"}

\* the methods among these whose response.result is an array
ArrayMethods ==
  {"getZoneSettings", "listWorkers", "listWorkerRoutes", "listWorkerSecrets",
   "queryD1Database", "listPagesProjects", "listPagesDeployments",
   "listSslCertificates", "listFirewallRules", "createFirewallRule", "listFilters",
   "listWafPackages", "listWafRules", "listLoadBalancers", "listLoadBalancerPools",
   "listLoadBalancerMonitors"}

\* every method of the interface
Methods ==
  {"testConnection", "listKvKeys"} \cup RawMethods \cup VoidMethods
    \cup PaginatedMethods \cup NestedMethods \cup ResultMethods

\* options.headers of the method's dispatcher call
CallerHeaders(m) ==
  IF m \in {"importDnsRecords", "putKvValue"}
    THEN [k \in {"Content-Type"} |-> "text/plain"]
    ELSE NoHeaders

(***************************************************************************)
(* parseInt(string, 10).                                                   *)
(***************************************************************************)
DigitValue(c) ==
  CASE c = "0" -> 0 [] c = "1" -> 1 [] c = "2" -> 2 [] c = "3" -> 3 [] c = "4" -> 4
    [] c = "5" -> 5 [] c = "6" -> 6 [] c = "7" -> 7 [] c = "8" -> 8 [] c = "9" -> 9

IsDigit(c) == c \in {"0", "1", "2", "3", "4", "5", "6", "7", "8", "9"}

IsWhiteSpace(c) == c \in {" ", "\t", "\n", "\r"}

RECURSIVE StripLeadingWhiteSpace(_)
StripLeadingWhiteSpace(s) ==
  IF s /= <<>> /\ IsWhiteSpace(Head(s)) THEN StripLeadingWhiteSpace(Tail(s)) ELSE s

\* the longest prefix of s made of digits
RECURSIVE DigitPrefix(_)
DigitPrefix(s) ==
  IF s /= <<>> /\ IsDigit(Head(s)) THEN <<Head(s)>> \o DigitPrefix(Tail(s)) ELSE <<>>

RECURSIVE DecimalValue(_, _)
DecimalValue(digits, acc) ==
  IF digits = <<>> THEN acc
  ELSE DecimalValue(Tail(digits), 10 * acc + DigitValue(Head(digits)))

\* a string is a sequence of one-character strings
parseInt(str) ==
  LET s == StripLeadingWhiteSpace(str)
      signed == s /= <<>> /\ Head(s) \in {"-", "+"}
      sign == IF s /= <<>> /\ Head(s) = "-" THEN -1 ELSE 1
      digits == DigitPrefix(IF signed THEN Tail(s) ELSE s)
  IN IF digits = <<>> THEN NaN ELSE Num(sign * DecimalValue(digits, 0))

(***************************************************************************)
(* Responses of the provider.                                              *)
(***************************************************************************)
RECURSIVE SeqsUpTo(_, _)
SeqsUpTo(S, n) ==
  IF n = 0 THEN {<<>>}
  ELSE LET shorter == SeqsUpTo(S, n - 1)
       IN shorter \cup {Append(q, x) : q \in {r \in shorter : Len(r) = n - 1}, x \in S}

Array(items) == [t |-> "array", items |-> items]

\* values of the Retry-After response header, as sequences of characters:
\* "120", "0", "-2", "", "x", "12x", "x12", and an HTTP date
RetryAfterValues ==
  {<<"1", "2", "0">>, <<"0">>, <<"-", "2">>, <<>>, <<"x">>, <<"1", "2", "x">>,
   <<"x", "1", "2">>,
   <<"W", "e", "d", ",", " ", "2", "1", " ", "O", "c", "t", " ", "2", "0", "1", "5">>}

\* response.headers: the Retry-After header, or no header at all
ResponseHeaders ==
  {NoHeaders} \cup {[k \in {"Retry-After"} |-> v] : v \in RetryAfterValues}

\* Headers.get
HeadersGet(headers, name) == IF name \in DOMAIN headers THEN headers[name] ELSE Null

\* truthiness of a header value: null and "" are falsy
TruthyHeader(v) == v /= Null /\ v /= <<>>

ErrorMessages == {"", "Invalid zone name"}

ErrorRecords == [code : {1003}, message : ErrorMessages]

ErrorLists == {Undefined} \cup {Array(q) : q \in SeqsUpTo(ErrorRecords, MaxErrors)}

Entity == [t |-> "object", id |-> "id1"]

User == [t |-> "object", id |-> "id1", email |-> "user@example.com"]

EntityLists == {Array(q) : q \in SeqsUpTo({Entity}, MaxItems)}

\* result_info: page, per_page, count, total_count, total_pages; the key
\* listing carries a cursor in it instead
ResultInfos ==
  {Undefined} \cup
  [t : {"object"}, page : 1..MaxPage, per_page : {20}, count : 0..MaxItems,
   total_count : {MaxItems}, total_pages : 0..MaxPage, cursor : {UNDEFINED}]

KvResultInfos ==
  {Undefined} \cup
  [t : {"object"}, page : {1}, per_page : {20}, count : {0},
   total_count : {0}, total_pages : {0}, cursor : {UNDEFINED, "", "cursor1"}]

\* the result payloads the provider returns to a method on success
ResultsFor(m) ==
  IF m \in PaginatedMethods \/ m = "listKvKeys" \/ m \in ArrayMethods THEN EntityLists
  ELSE IF m \in NestedMethods THEN {[t |-> "object", nested |-> a] : a \in EntityLists}
  ELSE IF m \in {"testConnection", "getUser"} THEN {User}
  ELSE {Entity}

ResultInfosFor(m) ==
  IF m \in PaginatedMethods THEN ResultInfos
  ELSE IF m = "listKvKeys" THEN KvResultInfos
  ELSE {Undefined}

Envelope(success, errors, result, result_info) ==
  [t |-> "object", success |-> success, errors |-> errors, messages |-> Array(<<>>),
   result |-> result, result_info |-> result_info]

\* envelopes with success false carry the error list, envelopes with success
\* true carry the result
EnvelopesFor(m) ==
  {Envelope(FALSE, e, Undefined, Undefined) : e \in ErrorLists}
    \cup {Envelope(TRUE, Array(<<>>), r, i) : r \in ResultsFor(m), i \in ResultInfosFor(m)}

\* a response body: text that is no JSON, the JSON text null, or an envelope
TextBody(text) == [t |-> "text", text |-> text]

JsonBody(value) == [t |-> "json", value |-> value]

JsonNull == [t |-> "null"]

BodiesFor(m) ==
  {TextBody(""), TextBody("$ORIGIN example.com."), JsonBody(JsonNull)}
    \cup {JsonBody(e) : e \in EnvelopesFor(m)}

Statuses == {200, 204, 400, 401, 403, 429, 500}

\* the responses a method can receive: every status with every body, and
\* every Retry-After value on a 429
ResponsesFor(m) ==
  [status : Statuses, headers : {NoHeaders}, body : BodiesFor(m)]
    \cup [status : {429}, headers : ResponseHeaders, body : {TextBody("")}]

NoResponse == [status |-> 0, headers |-> NoHeaders, body |-> TextBody("")]

\* Response.ok
Ok(status) == status \in 200..299

(***************************************************************************)
(* The two dispatchers, from the response on.  Each yields what the        *)
(* dispatcher produced and which body reader it called.                    *)
(***************************************************************************)
\* the number of seconds a 429 is turned into
RetryAfterSeconds(headers) ==
  LET retryAfter == HeadersGet(headers, "Retry-After")
  IN IF TruthyHeader(retryAfter) THEN parseInt(retryAfter) ELSE Num(60)

\* mutant of FirstErrorMessage: the last error record is taken
FirstErrorMessage_Last(data) ==
  IF data.errors = Undefined THEN UNDEFINED
  ELSE IF data.errors.items = <<>> THEN UNDEFINED
  ELSE data.errors.items[Len(data.errors.items)].message

\* data.errors?.[0]?.message
FirstErrorMessage(data) ==
  IF data.errors = Undefined THEN UNDEFINED
  ELSE IF data.errors.items = <<>> THEN UNDEFINED
  ELSE data.errors.items[1].message

\* status 429: lines 275-278 and 312-315
RateLimited(response) ==
  [result |-> Thrown(RateLimitError(RateLimitMessage, RetryAfterSeconds(response.headers))),
   bodyRead |-> "none"]

\* status 401 or 403: lines 281-283 and 317-319
AuthRejected ==
  [result |-> Thrown(AuthenticationError(AuthFailedMessage)), bodyRead |-> "none"]

\* status 204: lines 286-288
EmptySuccess ==
  [result |-> Returned(Envelope(TRUE, Array(<<>>), Undefined, Undefined)),
   bodyRead |-> "none"]

\* the body is read as JSON and unwrapped: lines 290-298
ReadEnvelope(response) ==
  IF response.body.t = "text"
    THEN [result |-> Thrown(SyntaxError), bodyRead |-> "json"]
  ELSE LET data == response.body.value
       IN IF data = JsonNull
            THEN [result |-> Thrown(TypeError), bodyRead |-> "json"]
          ELSE IF ~data.success
            THEN LET first == FirstErrorMessage(data)
                     errorMessage == IF Truthy(first) THEN first
                                     ELSE UnknownApiErrorMessage
                 IN [result |-> Thrown(CloudflareApiError(errorMessage, response.status)),
                     bodyRead |-> "json"]
          ELSE [result |-> Returned(data), bodyRead |-> "json"]

\* mutant of request: a 401 or 403 surfaces the message of the provider's body
request_LeakBody(response) ==
  IF response.status = 429 THEN RateLimited(response)
  ELSE IF response.status = 401 \/ response.status = 403
    THEN LET read == ReadEnvelope(response)
         IN IF read.result.tag = "thrown"
              THEN [result |-> Thrown(AuthenticationError(read.result.error.message)),
                    bodyRead |-> "json"]
              ELSE AuthRejected
  ELSE IF response.status = 204 THEN EmptySuccess
  ELSE ReadEnvelope(response)

\* mutant of request: a 204 is not told apart and its body is parsed
request_No204Branch(response) ==
  IF response.status = 429 THEN RateLimited(response)
  ELSE IF response.status = 401 \/ response.status = 403 THEN AuthRejected
  ELSE ReadEnvelope(response)

\* the part of request after the fetch: lines 274-298
request(response) ==
  IF response.status = 429 THEN RateLimited(response)
  ELSE IF response.status = 401 \/ response.status = 403 THEN AuthRejected
  ELSE IF response.status = 204 THEN EmptySuccess
  ELSE ReadEnvelope(response)

\* mutant of requestRaw: the body is unwrapped as in request
requestRaw_ReadsEnvelope(response) ==
  IF response.status = 429 THEN RateLimited(response)
  ELSE IF response.status = 401 \/ response.status = 403 THEN AuthRejected
  ELSE IF response.status = 204 THEN EmptySuccess
  ELSE ReadEnvelope(response)

\* the part of requestRaw after the fetch: lines 312-325
requestRaw(response) ==
  IF response.status = 429 THEN RateLimited(response)
  ELSE IF response.status = 401 \/ response.status = 403 THEN AuthRejected
  ELSE IF ~Ok(response.status)
    THEN [result |-> Thrown(CloudflareApiError("API error: " \o ToString(response.status),
                                                response.status)),
          bodyRead |-> "none"]
  ELSE [result |-> Returned(response.body), bodyRead |-> "text"]

(***************************************************************************)
(* What a method does with the dispatcher's answer.                        *)
(***************************************************************************)
\* mutant of createPaginatedResponse: without metadata, total is filled in
createPaginatedResponse_NoMetaTotal(items, resultInfo) ==
  IF resultInfo = Undefined
    THEN IF items = Undefined THEN Thrown(TypeError)
         ELSE Returned([t |-> "object", items |-> items, count |-> Len(items.items),
                        total |-> Len(items.items), hasMore |-> FALSE])
  ELSE Returned([t |-> "object", items |-> items, count |-> resultInfo.count,
                 total |-> resultInfo.total_count,
                 hasMore |-> resultInfo.page < resultInfo.total_pages,
                 page |-> resultInfo.page, totalPages |-> resultInfo.total_pages])

\* mutant of createPaginatedResponse: the last page still claims more
createPaginatedResponse_LastPageHasMore(items, resultInfo) ==
  IF resultInfo = Undefined
    THEN IF items = Undefined THEN Thrown(TypeError)
         ELSE Returned([t |-> "object", items |-> items, count |-> Len(items.items),
                        hasMore |-> FALSE])
  ELSE Returned([t |-> "object", items |-> items, count |-> resultInfo.count,
                 total |-> resultInfo.total_count,
                 hasMore |-> resultInfo.page <= resultInfo.total_pages,
                 page |-> resultInfo.page, totalPages |-> resultInfo.total_pages])

\* mutant of createPaginatedResponse: the page is turned into the next page
createPaginatedResponse_PageShift(items, resultInfo) ==
  IF resultInfo = Undefined
    THEN IF items = Undefined THEN Thrown(TypeError)
         ELSE Returned([t |-> "object", items |-> items, count |-> Len(items.items),
                        hasMore |-> FALSE])
  ELSE Returned([t |-> "object", items |-> items, count |-> resultInfo.count,
                 total |-> resultInfo.total_count,
                 hasMore |-> resultInfo.page < resultInfo.total_pages,
                 page |-> resultInfo.page + 1, totalPages |-> resultInfo.total_pages])

\* utils/pagination.ts, lines 45-65
createPaginatedResponse(items, resultInfo) ==
  IF resultInfo = Undefined
    THEN IF items = Undefined THEN Thrown(TypeError)
         ELSE Returned([t |-> "object", items |-> items, count |-> Len(items.items),
                        hasMore |-> FALSE])
  ELSE Returned([t |-> "object", items |-> items, count |-> resultInfo.count,
                 total |-> resultInfo.total_count,
                 hasMore |-> resultInfo.page < resultInfo.total_pages,
                 page |-> resultInfo.page, totalPages |-> resultInfo.total_pages])

\* utils/pagination.ts, lines 12-16
PAGINATION_DEFAULTS == [page |-> 1, per_page |-> 20, maxPerPage |-> 100]

\* truthiness of a number-typed value: undefined, NaN and 0 are falsy
TruthyNumber(v) == v /= Undefined /\ v /= NaN /\ v /= Num(0)

\* Math.min of two numbers
MathMin(a, b) == IF a.n <= b.n THEN a ELSE b

\* params?.page and params?.per_page
OptionalField(params, field) == IF params = Undefined THEN Undefined ELSE params[field]

\* the default parameter value: an omitted maxPerPage is PAGINATION_DEFAULTS.maxPerPage
MaxPerPageOr(maxPerPage) ==
  IF maxPerPage = Undefined THEN Num(PAGINATION_DEFAULTS.maxPerPage) ELSE maxPerPage

\* mutant of normalizePaginationParams: the page size is not clamped
normalizePaginationParams_NoClamp(params, maxPerPage) ==
  LET page == OptionalField(params, "page")
      per_page == OptionalField(params, "per_page")
  IN [t |-> "object",
      page |-> IF TruthyNumber(page) THEN page ELSE Num(PAGINATION_DEFAULTS.page),
      per_page |-> IF TruthyNumber(per_page) THEN per_page
                   ELSE Num(PAGINATION_DEFAULTS.per_page)]

\* utils/pagination.ts, lines 21-29
normalizePaginationParams(params, maxPerPage) ==
  LET page == OptionalField(params, "page")
      per_page == OptionalField(params, "per_page")
  IN [t |-> "object",
      page |-> IF TruthyNumber(page) THEN page ELSE Num(PAGINATION_DEFAULTS.page),
      per_page |-> MathMin(IF TruthyNumber(per_page) THEN per_page
                           ELSE Num(PAGINATION_DEFAULTS.per_page),
                           MaxPerPageOr(maxPerPage))]

\* utils/pagination.ts, lines 34-40
emptyPaginatedResponse ==
  [t |-> "object", items |-> Array(<<>>), count |-> 0, hasMore |-> FALSE]

\* mutant of KvKeysResult: the list is complete when the cursor field is absent
KvKeysResult_AbsentCursor(envelope) ==
  LET cursor == IF envelope.result_info = Undefined THEN UNDEFINED
                ELSE envelope.result_info.cursor
  IN Returned([t |-> "object", keys |-> envelope.result, cursor |-> cursor,
               list_complete |-> cursor = UNDEFINED])

\* the rest of listKvKeys: lines 675-681
KvKeysResult(envelope) ==
  LET cursor == IF envelope.result_info = Undefined THEN UNDEFINED
                ELSE envelope.result_info.cursor
  IN Returned([t |-> "object", keys |-> envelope.result, cursor |-> cursor,
               list_complete |-> ~Truthy(cursor)])

\* mutant of TestConnectionResult: the failure of getUser is not caught
TestConnectionResult_Rethrows(dispatched) ==
  IF dispatched.tag = "thrown" THEN dispatched
  ELSE IF dispatched.value.result = Undefined THEN Thrown(TypeError)
  ELSE Returned([t |-> "object", connected |-> TRUE,
                 message |-> "Connected as " \o dispatched.value.result.email])

\* testConnection: lines 332-342, around getUser
TestConnectionResult(dispatched) ==
  IF dispatched.tag = "thrown"
    THEN Returned([t |-> "object", connected |-> FALSE,
                   message |-> dispatched.error.message])
  ELSE IF dispatched.value.result = Undefined
    THEN Returned([t |-> "object", connected |-> FALSE, message |-> TypeError.message])
  ELSE Returned([t |-> "object", connected |-> TRUE,
                 message |-> "Connected as " \o dispatched.value.result.email])

\* what the method returns or throws, given what its dispatcher call produced
MethodResult(m, dispatched) ==
  IF m = "testConnection" THEN TestConnectionResult(dispatched)
  ELSE IF dispatched.tag = "thrown" THEN dispatched
  ELSE IF m \in RawMethods THEN dispatched
  ELSE IF m \in VoidMethods THEN Returned(Undefined)
  ELSE IF m \in PaginatedMethods
    THEN createPaginatedResponse(dispatched.value.result, dispatched.value.result_info)
  ELSE IF m \in NestedMethods
    THEN IF dispatched.value.result = Undefined THEN Thrown(TypeError)
         ELSE Returned(dispatched.value.result.nested)
  ELSE IF m = "listKvKeys" THEN KvKeysResult(dispatched.value)
  ELSE Returned(dispatched.value.result)

(***************************************************************************)
(* The client as a state machine.                                          *)
(***************************************************************************)
VARIABLES
  credentials,   \* this.credentials
  pc,            \* "idle", "awaiting" (fetch in flight) or "done" (promise settled)
  method,        \* the method invoked last
  authHeaders,   \* what getAuthHeaders produced for this invocation
  fetched,       \* the outbound calls of this invocation: the headers of each
  response,      \* the response fetch resolved with
  bodyRead,      \* the body reader the dispatcher called: none, json or text
  dispatched,    \* what request / requestRaw produced
  outcome,       \* what the method produced
  pgCall,        \* a call of a pagination utility: the function and its arguments
  pgReturn,      \* what that call returned, and what the call on its own output returned
  mcp,           \* the worker's inbound requests: for each, how far fetch has come
  heap,          \* the client objects the worker has constructed
  constructedWith, \* the credentials the client was constructed with
  failedBefore,  \* an earlier invocation of this client has failed
  tool,          \* the tool invoked: its name and arguments
  block,         \* the ToolResponse its handler returned
  fmCall,        \* a call of a formatter: the function and its arguments
  fmReturn       \* what that call returned, and what parsing its text returned

vars == <<credentials, pc, method, authHeaders, fetched, response, bodyRead,
          dispatched, outcome>>

pgVars == <<pgCall, pgReturn>>

mcpVars == <<mcp, heap>>

seqVars == <<constructedWith, failedBefore>>

toolVars == <<tool, block>>

fmVars == <<fmCall, fmReturn>>

\* the variables outside the client, which no client step touches
beyondClient == <<pgVars, mcpVars, seqVars, toolVars, fmVars>>

\* the variables outside the pagination utilities
beyondPagination == <<vars, mcpVars, seqVars, toolVars, fmVars>>

\* the variables outside the worker's fetch handler
beyondWorker == <<pgVars, seqVars, toolVars, fmVars>>

\* the state after new CloudflareClientImpl(credentials)
Init ==
  /\ credentials \in TenantCredentials
  /\ pc = "idle"
  /\ method = "none"
  /\ authHeaders = Pending
  /\ fetched = <<>>
  /\ response = NoResponse
  /\ bodyRead = "none"
  /\ dispatched = Pending
  /\ outcome = Pending

\* a method is called: the dispatcher derives the auth headers and calls fetch
Invoke(m) ==
  /\ pc = "idle"
  /\ method' = m
  /\ response' = NoResponse
  /\ bodyRead' = "none"
  /\ LET auth == getAuthHeaders(credentials)
     IN /\ authHeaders' = auth
        /\ IF auth.tag = "thrown"
             THEN /\ fetched' = <<>>
                  /\ dispatched' = auth
                  /\ outcome' = MethodResult(m, auth)
                  /\ pc' = "done"
             ELSE /\ fetched' = <<Spread(auth.value, CallerHeaders(m))>>
                  /\ dispatched' = Pending
                  /\ outcome' = Pending
                  /\ pc' = "awaiting"
  /\ UNCHANGED credentials

\* mutant of RespondJson: a 429 is answered by issuing the call again
RespondJson_Retry(r) ==
  /\ pc = "awaiting"
  /\ method \notin RawMethods
  /\ IF r.status = 429
       THEN /\ fetched' = Append(fetched, fetched[1])
            /\ UNCHANGED <<pc, response, bodyRead, dispatched, outcome>>
       ELSE /\ response' = r
            /\ bodyRead' = request(r).bodyRead
            /\ dispatched' = request(r).result
            /\ outcome' = MethodResult(method, request(r).result)
            /\ pc' = "done"
            /\ UNCHANGED fetched
  /\ UNCHANGED <<credentials, method, authHeaders>>

\* mutant of RespondJson: a rejected token is dropped from the client
RespondJson_DropsToken(r) ==
  /\ pc = "awaiting"
  /\ method \notin RawMethods
  /\ LET d == request(r)
     IN /\ response' = r
        /\ bodyRead' = d.bodyRead
        /\ dispatched' = d.result
        /\ outcome' = MethodResult(method, d.result)
  /\ pc' = "done"
  /\ credentials' = IF r.status \in {401, 403}
                      THEN [credentials EXCEPT !.apiToken = UNDEFINED]
                      ELSE credentials
  /\ UNCHANGED <<method, authHeaders, fetched>>

\* fetch resolves inside request
RespondJson(r) ==
  /\ pc = "awaiting"
  /\ method \notin RawMethods
  /\ LET d == request(r)
     IN /\ response' = r
        /\ bodyRead' = d.bodyRead
        /\ dispatched' = d.result
        /\ outcome' = MethodResult(method, d.result)
  /\ pc' = "done"
  /\ UNCHANGED <<credentials, method, authHeaders, fetched>>

\* fetch resolves inside requestRaw
RespondRaw(r) ==
  /\ pc = "awaiting"
  /\ method \in RawMethods
  /\ LET d == requestRaw(r)
     IN /\ response' = r
        /\ bodyRead' = d.bodyRead
        /\ dispatched' = d.result
        /\ outcome' = MethodResult(method, d.result)
  /\ pc' = "done"
  /\ UNCHANGED <<credentials, method, authHeaders, fetched>>

\* fetch rejects: the error leaves the dispatcher as it is
TransportError ==
  /\ pc = "awaiting"
  /\ dispatched' = Thrown(FetchError)
  /\ outcome' = MethodResult(method, Thrown(FetchError))
  /\ pc' = "done"
  /\ UNCHANGED <<credentials, method, authHeaders, fetched, response, bodyRead>>

\* the caller has taken the settled promise; the client is ready for the next call
Settle ==
  /\ pc = "done"
  /\ pc' = "idle"
  /\ method' = "none"
  /\ authHeaders' = Pending
  /\ fetched' = <<>>
  /\ response' = NoResponse
  /\ bodyRead' = "none"
  /\ dispatched' = Pending
  /\ outcome' = Pending
  /\ UNCHANGED credentials

\* no utility has been called outside the client
NoCall == [fn |-> "none"]

\* the worker's inbound requests
Requests == 1..MaxRequests

\* a request that has not arrived
NoRequest == [phase |-> "none"]

\* no request has arrived at the worker
WorkerIdle ==
  /\ mcp = [r \in Requests |-> NoRequest]
  /\ heap = {}

\* no pagination utility has been called
PaginationIdle ==
  /\ pgCall = NoCall
  /\ pgReturn = <<>>

\* no tool has been invoked
NoTool == [name |-> "none"]

ToolsIdle ==
  /\ tool = NoTool
  /\ block = Pending

\* no formatter has been called
FormatIdle ==
  /\ fmCall = NoCall
  /\ fmReturn = <<>>

\* the client is as constructed
AsConstructed ==
  /\ constructedWith = credentials
  /\ failedBefore = FALSE

BeyondClientIdle ==
  /\ PaginationIdle
  /\ WorkerIdle
  /\ AsConstructed
  /\ ToolsIdle
  /\ FormatIdle

Next ==
  \/ (\E m \in Methods : Invoke(m)) /\ UNCHANGED beyondClient
  \/ (\E r \in ResponsesFor(method) : RespondJson(r)) /\ UNCHANGED beyondClient
  \/ (\E r \in ResponsesFor(method) : RespondRaw(r)) /\ UNCHANGED beyondClient
  \/ TransportError /\ UNCHANGED beyondClient
  \/ Settle /\ UNCHANGED beyondClient

\* one client, and nothing else running
ClientAlone == Init /\ BeyondClientIdle

Spec == ClientAlone /\ [][Next]_<<vars, beyondClient>>

(***************************************************************************)
(* Properties.                                                             *)
(***************************************************************************)
\* a bearer token, or a complete email+key pair
HasBearerToken(c) == c.apiToken \notin {UNDEFINED, ""}

HasLegacyPair(c) == c.email \notin {UNDEFINED, ""} /\ c.apiKey \notin {UNDEFINED, ""}

LacksCredentials(c) == ~HasBearerToken(c) /\ ~HasLegacyPair(c)

\* the dispatcher a method uses, applied to a response
Dispatch(m, r) == IF m \in RawMethods THEN requestRaw(r) ELSE request(r)

\* the invocation got a response (fetch did not reject)
Answered == pc = "done" /\ response.status \in Statuses

FailedWith(result, name) == result.tag = "thrown" /\ result.error.name = name

\* C1 as stated: with neither a bearer token nor a complete email+key pair,
\* every method, testConnection included, fails with AuthenticationError and
\* no outbound call is issued.
C1_EveryMethodFailsWithAuthenticationError ==
  LacksCredentials(credentials) =>
    /\ fetched = <<>>
    /\ pc = "done" => FailedWith(outcome, "AuthenticationError")

\* C1 amended: with neither a bearer token nor a complete email+key pair, no
\* outbound call is ever issued; every method other than testConnection fails
\* with the "No credentials provided" AuthenticationError, and testConnection
\* returns connected = false with that error's message.
C1_NoCredentialsNoCall ==
  LacksCredentials(credentials) =>
    /\ fetched = <<>>
    /\ pc /= "awaiting"
    /\ (pc = "done" /\ method /= "testConnection") =>
         outcome = Thrown(AuthenticationError(NoCredentialsMessage))
    /\ (pc = "done" /\ method = "testConnection") =>
         outcome = Returned([t |-> "object", connected |-> FALSE,
                             message |-> NoCredentialsMessage])

C1_Witness ==
  /\ pc = "done"
  /\ method = "putKvValue"
  /\ credentials.apiToken = UNDEFINED
  /\ credentials.email = "user@example.com"
  /\ credentials.apiKey = ""
  /\ outcome.tag = "thrown"

\* C2 as stated: with a non-empty bearer token getAuthHeaders produces exactly
\* one header, Authorization: Bearer <token>.
C2_ExactlyOneHeader ==
  (pc /= "idle" /\ HasBearerToken(credentials)) =>
    /\ authHeaders.tag = "returned"
    /\ DOMAIN authHeaders.value = {"Authorization"}
    /\ authHeaders.value["Authorization"] = "Bearer " \o credentials.apiToken

\* C2 amended: with a non-empty bearer token getAuthHeaders produces exactly
\* one authentication header, Authorization: Bearer <token>, and next to it
\* only Content-Type: application/json, whether or not email and apiKey are
\* also populated.
C2_BearerTokenHeaders ==
  (pc /= "idle" /\ HasBearerToken(credentials)) =>
    /\ authHeaders.tag = "returned"
    /\ DOMAIN authHeaders.value = {"Authorization", "Content-Type"}
    /\ authHeaders.value["Authorization"] = "Bearer " \o credentials.apiToken
    /\ authHeaders.value["Content-Type"] = "application/json"

C2_Witness ==
  /\ pc /= "idle"
  /\ HasBearerToken(credentials)
  /\ HasLegacyPair(credentials)
  /\ authHeaders.tag = "returned"

\* C3: every outbound request carries the headers of exactly one scheme:
\* Authorization: Bearer <token> when a token is present, otherwise X-Auth-Email
\* together with X-Auth-Key; never both schemes, never neither.
C3_ExactlyOneScheme ==
  \A i \in DOMAIN fetched :
    LET h == fetched[i]
        bearer == "Authorization" \in DOMAIN h
        legacy == "X-Auth-Email" \in DOMAIN h \/ "X-Auth-Key" \in DOMAIN h
    IN /\ bearer /= legacy
       /\ HasBearerToken(credentials) =>
            bearer /\ h["Authorization"] = "Bearer " \o credentials.apiToken
       /\ ~HasBearerToken(credentials) =>
            /\ HasLegacyPair(credentials)
            /\ {"X-Auth-Email", "X-Auth-Key"} \subseteq DOMAIN h
            /\ h["X-Auth-Email"] = credentials.email
            /\ h["X-Auth-Key"] = credentials.apiKey

C3_Witness ==
  /\ pc = "awaiting"
  /\ fetched /= <<>>
  /\ ~HasBearerToken(credentials)
  /\ "X-Auth-Key" \in DOMAIN fetched[1]

\* C4 as stated: when the caller-supplied headers and the auth headers hold
\* the same header name, the header sent keeps the auth value.
C4_AuthValueKept ==
  \A i \in DOMAIN fetched :
    \A k \in DOMAIN authHeaders.value \cap DOMAIN CallerHeaders(method) :
      fetched[i][k] = authHeaders.value[k]

\* C4 amended: when the caller-supplied headers and the auth headers hold the
\* same header name, the header sent carries the caller's value; the only name
\* a caller supplies is Content-Type, so Authorization, X-Auth-Email and
\* X-Auth-Key are always sent with the auth value.
C4_CallerValueSent ==
  \A i \in DOMAIN fetched :
    /\ DOMAIN fetched[i] = DOMAIN authHeaders.value \cup DOMAIN CallerHeaders(method)
    /\ \A k \in DOMAIN CallerHeaders(method) : fetched[i][k] = CallerHeaders(method)[k]
    /\ DOMAIN CallerHeaders(method) \subseteq {"Content-Type"}
    /\ \A k \in DOMAIN authHeaders.value \ {"Content-Type"} :
         fetched[i][k] = authHeaders.value[k]

C4_Witness ==
  /\ fetched /= <<>>
  /\ method = "importDnsRecords"
  /\ authHeaders.value["Content-Type"] = "application/json"
  /\ fetched[1]["Content-Type"] = "text/plain"

\* C5 as stated: a 429 fails with RateLimitError whose retry-after is the
\* integer parsed from the Retry-After header, and 60 when the header is absent
\* or its value cannot be parsed as a number.
C5_RetryAfterOrDefault ==
  (Answered /\ response.status = 429) =>
    LET header == HeadersGet(response.headers, "Retry-After")
        parsed == IF header = Null THEN NaN ELSE parseInt(header)
    IN dispatched = Thrown(RateLimitError(RateLimitMessage,
                                           IF parsed = NaN THEN Num(60) ELSE parsed))

\* C6: a 401 or 403 fails with AuthenticationError carrying the fixed "check
\* your credentials" message whatever the body holds: the body is not read, and
\* the same status with any other body yields the identical error.
C6_AuthFailureHidesBody ==
  (Answered /\ response.status \in {401, 403}) =>
    /\ dispatched = Thrown(AuthenticationError(
                             "Authentication failed. Check your API credentials."))
    /\ bodyRead = "none"
    /\ \A b \in BodiesFor(method) :
         Dispatch(method, [response EXCEPT !.body = b]).result = dispatched

C6_Witness ==
  /\ Answered
  /\ response.status = 403
  /\ response.body.t = "json"
  /\ response.body.value /= JsonNull
  /\ response.body.value.errors /= Undefined
  /\ response.body.value.errors.items /= <<>>
  /\ response.body.value.errors.items[1].message = "Invalid zone name"
  /\ FailedWith(dispatched, "AuthenticationError")

\* C7: a JSON-variant call answered with 204 yields the empty success envelope
\* (success true, no errors, no messages, result undefined) without reading the
\* body, and a delete method then resolves.
C7_NoContentIsSuccess ==
  (Answered /\ method \notin RawMethods /\ response.status = 204) =>
    /\ dispatched.tag = "returned"
    /\ dispatched.value.success
    /\ dispatched.value.errors = Array(<<>>)
    /\ dispatched.value.messages = Array(<<>>)
    /\ dispatched.value.result = Undefined
    /\ bodyRead = "none"
    /\ method \in VoidMethods => outcome = Returned(Undefined)

C7_Witness ==
  /\ Answered
  /\ method = "deleteD1Database"
  /\ response.status = 204
  /\ response.body = TextBody("")
  /\ outcome = Returned(Undefined)

\* a JSON-variant call got an envelope with success false under a status that
\* is not 429, 401, 403 or 204
FailureEnvelope ==
  /\ Answered
  /\ method \notin RawMethods
  /\ response.status \notin {429, 401, 403, 204}
  /\ response.body.t = "json"
  /\ response.body.value /= JsonNull
  /\ ~response.body.value.success

\* C8 as stated: an envelope with success false fails with ApiError carrying
\* the message of the first error record and the HTTP status; the generic
\* fallback is the message when the error list is empty.
C8_FirstErrorMessage ==
  FailureEnvelope =>
    LET errors == response.body.value.errors
        empty == errors = Undefined \/ errors.items = <<>>
    IN dispatched = Thrown(CloudflareApiError(
                             IF empty THEN "Unknown Cloudflare API error"
                             ELSE errors.items[1].message,
                             response.status))

\* C8 amended: an envelope with success false fails with ApiError carrying the
\* HTTP status and the message of the first error record when that message is
\* not empty; the generic fallback is the message when the error list is empty
\* or missing or the first record's message is empty.
C8_FirstNonEmptyErrorMessage ==
  FailureEnvelope =>
    LET errors == response.body.value.errors
        empty == errors = Undefined \/ errors.items = <<>>
    IN dispatched = Thrown(CloudflareApiError(
                             IF empty \/ errors.items[1].message = ""
                               THEN "Unknown Cloudflare API error"
                               ELSE errors.items[1].message,
                             response.status))

C8_Witness ==
  /\ FailureEnvelope
  /\ method = "listZones"
  /\ response.status = 400
  /\ response.body.value.errors /= Undefined
  /\ Len(response.body.value.errors.items) = 2
  /\ response.body.value.errors.items[1].message = "Invalid zone name"
  /\ response.body.value.errors.items[2].message = ""
  /\ dispatched = Thrown(CloudflareApiError("Invalid zone name", 400))

\* C9: in requestRaw a non-ok status other than 429, 401 and 403 fails with
\* ApiError "API error: <status>" carrying the status, and an ok status returns
\* the body text unchanged, never parsed as an envelope.
C9_RawDispatch ==
  (Answered /\ method \in RawMethods) =>
    /\ (~Ok(response.status) /\ response.status \notin {429, 401, 403}) =>
         dispatched = Thrown(CloudflareApiError(
                               "API error: " \o ToString(response.status), response.status))
    /\ Ok(response.status) =>
         /\ dispatched = Returned(response.body)
         /\ outcome = Returned(response.body)
    /\ bodyRead /= "json"

C9_Witness ==
  /\ Answered
  /\ method = "exportDnsRecords"
  /\ response.status = 200
  /\ response.body.t = "json"
  /\ response.body.value /= JsonNull
  /\ ~response.body.value.success
  /\ outcome = Returned(response.body)

\* C10: an invocation with valid credentials performs exactly one outbound
\* call; after a failure (429, 401/403, ApiError, transport error) no further
\* call is made for it.
C10_ExactlyOneCall ==
  /\ Len(fetched) <= 1
  /\ (pc \in {"awaiting", "done"} /\ ~LacksCredentials(credentials)) => Len(fetched) = 1

C10_Witness ==
  /\ pc = "done"
  /\ ~LacksCredentials(credentials)
  /\ dispatched.tag = "thrown"
  /\ Len(fetched) = 1

(***************************************************************************)
(* The pagination utilities (src/src/utils/pagination.ts), applied to      *)
(* arguments drawn from bounded sets, and applied again to what they       *)
(* returned.                                                               *)
(***************************************************************************)
\* the page a caller asks for: left out, or a number
PageRequests == {Undefined} \cup {Num(n) : n \in -1..MaxPage}

\* the page size a caller asks for: left out, or a number
PerPageRequests == {Undefined} \cup {Num(n) : n \in {-5, 0, 1, 20, 100, 101, 500}}

\* PaginationParams (types/cloudflare.ts): both fields optional; the argument too
PaginationParams ==
  {Undefined} \cup [t : {"object"}, page : PageRequests, per_page : PerPageRequests]

\* the maxPerPage argument: left out, or a number
MaxPerPageArgs == {Undefined, Num(10), Num(50)}

PaginationCalls ==
  [fn : {"createPaginatedResponse"}, items : EntityLists \cup {Undefined},
   resultInfo : ResultInfos]
  \cup [fn : {"normalizePaginationParams"}, params : PaginationParams,
        maxPerPage : MaxPerPageArgs]
  \cup {[fn |-> "emptyPaginatedResponse"]}

\* a PaginatedResponse read back as the result_info it was made from
ResultInfoOf(paginated) ==
  IF "page" \in DOMAIN paginated
    THEN [t |-> "object", page |-> paginated.page,
          per_page |-> PAGINATION_DEFAULTS.per_page, count |-> paginated.count,
          total_count |-> paginated.total, total_pages |-> paginated.totalPages,
          cursor |-> UNDEFINED]
  ELSE Undefined

\* no client takes part
ClientUnused ==
  /\ credentials = [apiToken |-> UNDEFINED, email |-> UNDEFINED, apiKey |-> UNDEFINED]
  /\ pc = "idle"
  /\ method = "none"
  /\ authHeaders = Pending
  /\ fetched = <<>>
  /\ response = NoResponse
  /\ bodyRead = "none"
  /\ dispatched = Pending
  /\ outcome = Pending
  /\ AsConstructed
  /\ ToolsIdle

PaginationInit ==
  /\ ClientUnused
  /\ WorkerIdle
  /\ FormatIdle
  /\ pgCall \in PaginationCalls
  /\ pgReturn = <<>>

CreatePaginated ==
  /\ pgCall.fn = "createPaginatedResponse"
  /\ pgReturn = <<>>
  /\ pgReturn' = <<createPaginatedResponse(pgCall.items, pgCall.resultInfo)>>
  /\ UNCHANGED <<pgCall, beyondPagination>>

\* the result's own items, count, total, page and totalPages are fed back
CreatePaginatedAgain ==
  /\ pgCall.fn = "createPaginatedResponse"
  /\ Len(pgReturn) = 1
  /\ pgReturn[1].tag = "returned"
  /\ pgReturn' = Append(pgReturn,
                        createPaginatedResponse(pgReturn[1].value.items,
                                                ResultInfoOf(pgReturn[1].value)))
  /\ UNCHANGED <<pgCall, beyondPagination>>

NormalizeParams ==
  /\ pgCall.fn = "normalizePaginationParams"
  /\ pgReturn = <<>>
  /\ pgReturn' = <<Returned(normalizePaginationParams(pgCall.params, pgCall.maxPerPage))>>
  /\ UNCHANGED <<pgCall, beyondPagination>>

\* the normalized parameters are normalized once more
NormalizeParamsAgain ==
  /\ pgCall.fn = "normalizePaginationParams"
  /\ Len(pgReturn) = 1
  /\ pgReturn' = Append(pgReturn,
                        Returned(normalizePaginationParams(pgReturn[1].value,
                                                           pgCall.maxPerPage)))
  /\ UNCHANGED <<pgCall, beyondPagination>>

EmptyPaginated ==
  /\ pgCall.fn = "emptyPaginatedResponse"
  /\ pgReturn = <<>>
  /\ pgReturn' = <<Returned(emptyPaginatedResponse)>>
  /\ UNCHANGED <<pgCall, beyondPagination>>

PaginationNext ==
  \/ CreatePaginated
  \/ CreatePaginatedAgain
  \/ NormalizeParams
  \/ NormalizeParamsAgain
  \/ EmptyPaginated

SpecPagination == PaginationInit /\ [][PaginationNext]_<<vars, beyondClient>>

\* the call of fn has returned
Applied(fn) == pgCall.fn = fn /\ Len(pgReturn) >= 1

\* the keys of a PaginatedResponse that only metadata fills in
MetadataKeys == {"total", "page", "totalPages"}

\* C15: createPaginatedResponse without metadata returns, for every item
\* sequence, count = number of items, hasMore = false, and no total, page or
\* totalPages.
C15_NoMetadata ==
  (/\ Applied("createPaginatedResponse")
   /\ pgCall.resultInfo = Undefined
   /\ pgCall.items /= Undefined)
  => /\ pgReturn[1].tag = "returned"
     /\ pgReturn[1].value.items = pgCall.items
     /\ pgReturn[1].value.count = Len(pgCall.items.items)
     /\ pgReturn[1].value.hasMore = FALSE
     /\ DOMAIN pgReturn[1].value \cap MetadataKeys = {}

C15_Witness ==
  /\ Applied("createPaginatedResponse")
  /\ pgCall.resultInfo = Undefined
  /\ pgCall.items /= Undefined
  /\ Len(pgCall.items.items) >= 1
  /\ pgReturn[1].value.count = Len(pgCall.items.items)

\* C16: createPaginatedResponse with metadata copies count, total_count, page
\* and total_pages into count, total, page and totalPages, and hasMore is
\* true exactly when page < totalPages (page >= 1).
C16_MetadataCopied ==
  (/\ Applied("createPaginatedResponse")
   /\ pgCall.resultInfo /= Undefined
   /\ pgCall.resultInfo.page >= 1)
  => /\ pgReturn[1].tag = "returned"
     /\ pgReturn[1].value.count = pgCall.resultInfo.count
     /\ pgReturn[1].value.total = pgCall.resultInfo.total_count
     /\ pgReturn[1].value.page = pgCall.resultInfo.page
     /\ pgReturn[1].value.totalPages = pgCall.resultInfo.total_pages
     /\ pgReturn[1].value.hasMore \in BOOLEAN
     /\ pgReturn[1].value.hasMore <=>
          \E further \in 1..pgCall.resultInfo.total_pages : further > pgCall.resultInfo.page

C16_Witness ==
  /\ Applied("createPaginatedResponse")
  /\ pgCall.resultInfo /= Undefined
  /\ pgCall.resultInfo.page = 1
  /\ pgCall.resultInfo.total_pages = 2
  /\ pgReturn[1].value.hasMore

\* C17: in every PaginatedResult the utilities produce, count equals the
\* length of items.
C17_CountIsLength ==
  \A i \in 1..Len(pgReturn) :
    (/\ pgCall.fn \in {"createPaginatedResponse", "emptyPaginatedResponse"}
     /\ pgReturn[i].tag = "returned"
     /\ pgReturn[i].value.items /= Undefined)
    => pgReturn[i].value.count = Len(pgReturn[i].value.items.items)

\* the page size and the page the call of normalizePaginationParams asked for
RequestedPerPage == OptionalField(pgCall.params, "per_page")

RequestedPage == OptionalField(pgCall.params, "page")

\* the maximum page size in force for the call
MaximumPerPage == IF pgCall.maxPerPage = Undefined THEN 100 ELSE pgCall.maxPerPage.n

\* the smaller of two integers
Smaller(a, b) == IF a <= b THEN a ELSE b

\* C18 as stated: normalizePaginationParams yields per_page 20 when per_page
\* is 0 or unspecified, never yields a per_page above the maximum (default
\* 100), and reduces a requested per_page above the maximum to the maximum.
C18_DefaultTwentyAndClamped ==
  Applied("normalizePaginationParams")
  => /\ RequestedPerPage \in {Undefined, Num(0)} => pgReturn[1].value.per_page = Num(20)
     /\ pgReturn[1].value.per_page.n <= MaximumPerPage
     /\ (RequestedPerPage /= Undefined /\ RequestedPerPage.n > MaximumPerPage)
          => pgReturn[1].value.per_page = Num(MaximumPerPage)

\* C18, amended: when per_page is 0 or unspecified, normalizePaginationParams
\* yields the default 20 clamped to the maximum, that is 20 when the maximum
\* is at least 20 (as the default maximum 100 is) and the maximum otherwise;
\* it never yields a per_page above the maximum, and reduces a requested
\* per_page above the maximum to the maximum.
C18_DefaultClampedToMaximum ==
  Applied("normalizePaginationParams")
  => /\ RequestedPerPage \in {Undefined, Num(0)}
          => pgReturn[1].value.per_page = Num(Smaller(20, MaximumPerPage))
     /\ (RequestedPerPage \in {Undefined, Num(0)} /\ MaximumPerPage >= 20)
          => pgReturn[1].value.per_page = Num(20)
     /\ pgReturn[1].value.per_page.n <= MaximumPerPage
     /\ (RequestedPerPage /= Undefined /\ RequestedPerPage.n > MaximumPerPage)
          => pgReturn[1].value.per_page = Num(MaximumPerPage)

C18_Witness ==
  /\ Applied("normalizePaginationParams")
  /\ RequestedPerPage = Num(500)
  /\ pgCall.maxPerPage = Undefined
  /\ pgReturn[1].value.per_page = Num(100)

\* C19: normalizePaginationParams yields page 1 whenever the requested page
\* is unspecified or less than 1, and the requested page unchanged otherwise,
\* so the page sent to the provider is always at least 1.
C19_PageAtLeastOne ==
  Applied("normalizePaginationParams")
  => /\ (RequestedPage = Undefined \/ RequestedPage.n < 1)
          => pgReturn[1].value.page = Num(1)
     /\ (RequestedPage /= Undefined /\ RequestedPage.n >= 1)
          => pgReturn[1].value.page = RequestedPage
     /\ pgReturn[1].value.page.n >= 1

\* C20: pagination normalization is idempotent: createPaginatedResponse on a
\* result's own items, count, total, page and totalPages returns the same
\* result, and normalizePaginationParams on its own output returns that
\* output.
C20_Idempotent ==
  (/\ pgCall.fn \in {"createPaginatedResponse", "normalizePaginationParams"}
   /\ Len(pgReturn) = 2)
  => pgReturn[2] = pgReturn[1]

C20_Witness ==
  /\ pgCall.fn = "createPaginatedResponse"
  /\ pgCall.resultInfo /= Undefined
  /\ pgCall.items /= Undefined
  /\ Len(pgCall.items.items) >= 1
  /\ Len(pgReturn) = 2
  /\ pgReturn[2].value.page = pgCall.resultInfo.page

(***************************************************************************)
(* The worker's fetch handler (the index module at the end of              *)
(* src/src/types/cloudflare.ts) serving several inbound requests at once.  *)
(* A request is handled up to its next await in one step: the dynamic      *)
(* import of agents/mcp, then the provider call its tool makes.            *)
(***************************************************************************)
Tenants == {"tenantA", "tenantB"}

\* the secrets of a tenant
ApiTokenOf(tenant) == tenant \o "-token"
EmailOf(tenant) == tenant \o "@example.com"
ApiKeyOf(tenant) == tenant \o "-key"
AccountIdOf(tenant) == tenant \o "-account"

\* request headers: a function from the names of the headers present
HeadersOf(names, values) == [k \in names |-> values[k]]

\* the credential headers a tenant may send with a request
InboundHeaders(tenant) ==
  LET all == [k \in {"X-CF-API-Token", "X-CF-API-Email", "X-CF-API-Key",
                     "X-CF-Account-ID"} |->
                IF k = "X-CF-API-Token" THEN ApiTokenOf(tenant)
                ELSE IF k = "X-CF-API-Email" THEN EmailOf(tenant)
                ELSE IF k = "X-CF-API-Key" THEN ApiKeyOf(tenant)
                ELSE AccountIdOf(tenant)]
      blank == [k \in {"X-CF-API-Token", "X-CF-API-Email", "X-CF-API-Key"} |->
                  IF k = "X-CF-API-Email" THEN EmailOf(tenant) ELSE ""]
  IN {NoHeaders,
      HeadersOf({"X-CF-API-Token"}, all),
      HeadersOf({"X-CF-API-Email", "X-CF-API-Key"}, all),
      all,
      HeadersOf({"X-CF-API-Email"}, all),
      blank}

\* the inbound requests: POST /mcp with credential headers, and the other routes
InboundRequests ==
  [tenant : Tenants, pathname : {"/mcp"}, method : {"POST"}, headers : {NoHeaders}]
  \cup [tenant : Tenants, pathname : {"/health", "/sse", "/"}, method : {"GET"},
        headers : {NoHeaders}]
  \cup [tenant : Tenants, pathname : {"/mcp"}, method : {"GET"}, headers : {NoHeaders}]
  \cup UNION {[tenant : {t}, pathname : {"/mcp"}, method : {"POST"},
               headers : InboundHeaders(t)] : t \in Tenants}

\* headers.get(name) || undefined
HeaderOrUndefined(headers, name) ==
  IF name \in DOMAIN headers /\ headers[name] /= "" THEN headers[name] ELSE UNDEFINED

\* types/env.ts (src/unnamed/part_005), lines 39-48
parseTenantCredentials(req) ==
  [apiToken |-> HeaderOrUndefined(req.headers, "X-CF-API-Token"),
   email |-> HeaderOrUndefined(req.headers, "X-CF-API-Email"),
   apiKey |-> HeaderOrUndefined(req.headers, "X-CF-API-Key"),
   accountId |-> HeaderOrUndefined(req.headers, "X-CF-Account-ID")]

MissingCredentialsMessage ==
  "Missing credentials. Provide either X-CF-API-Token header, or both X-CF-API-Email and X-CF-API-Key headers."

\* new Error(message)
Error(message) == [name |-> "Error", message |-> message]

\* mutant of validateCredentials: the legacy test looks at the email alone
validateCredentials_EmailAlone(c) ==
  IF ~Truthy(c.apiToken) /\ ~Truthy(c.email)
    THEN Thrown(Error(MissingCredentialsMessage))
    ELSE Returned(Undefined)

\* mutant of validateCredentials: nothing is rejected
validateCredentials_AcceptsAll(c) == Returned(Undefined)

\* types/env.ts (src/unnamed/part_005), lines 53-62
validateCredentials(c) ==
  LET hasApiToken == Truthy(c.apiToken)
      hasLegacyAuth == Truthy(c.email) /\ Truthy(c.apiKey)
  IN IF ~hasApiToken /\ ~hasLegacyAuth
       THEN Thrown(Error(MissingCredentialsMessage))
       ELSE Returned(Undefined)

\* mutant of createCloudflareClient: a client constructed earlier is handed out again
createCloudflareClient_Cached(objects, ref, c) ==
  IF objects = {}
    THEN [heap |-> {[ref |-> ref, credentials |-> c]}, ref |-> ref]
    ELSE [heap |-> objects, ref |-> (CHOOSE o \in objects : TRUE).ref]

\* client.ts, lines 1082-1084 and 232-234: a new object, at the fresh address ref
createCloudflareClient(objects, ref, c) ==
  [heap |-> objects \cup {[ref |-> ref, credentials |-> c]}, ref |-> ref]

\* createStatelessServer: the server's tools close over the client constructed here
createStatelessServer(objects, ref, c) ==
  LET made == createCloudflareClient(objects, ref, c)
  IN [heap |-> made.heap,
      server |-> [name |-> "primrose-mcp-cloudflare", version |-> "1.0.0",
                  client |-> made.ref]]

\* a Response: its status and what its body says
Response(status, body) == [status |-> status, body |-> body]

NoServer == [name |-> "none"]

\* the 401 of the /mcp branch
UnauthorizedResponse(error) ==
  Response(401, [error |-> "Unauthorized", message |-> error.message,
                 required_headers |-> <<"X-CF-API-Token", "or X-CF-API-Email + X-CF-API-Key">>])

\* the responses of the branches that are not POST /mcp
RouteResponse(req) ==
  IF req.pathname = "/health" THEN Response(200, [status |-> "ok"])
  ELSE IF req.pathname = "/sse" THEN Response(501, [status |-> "SSE endpoint requires Durable Objects"])
  ELSE Response(200, [status |-> "documentation"])

\* the client object a server's tools call
ClientAt(ref) == CHOOSE o \in heap : o.ref = ref

WorkerInit ==
  /\ ClientUnused
  /\ PaginationIdle
  /\ WorkerIdle
  /\ FormatIdle

\* fetch, up to its first await or its return
Receive(r, req) ==
  /\ mcp[r].phase = "none"
  /\ IF req.pathname = "/mcp" /\ req.method = "POST"
       THEN LET c == parseTenantCredentials(req)
                validation == validateCredentials(c)
                built == createStatelessServer(heap, r, c)
            IN IF validation.tag = "thrown"
                 THEN /\ mcp' = [mcp EXCEPT ![r] =
                                   [phase |-> "responded", request |-> req,
                                    credentials |-> c, validation |-> validation,
                                    server |-> NoServer, fetched |-> <<>>,
                                    response |-> UnauthorizedResponse(validation.error)]]
                      /\ UNCHANGED heap
                 ELSE /\ mcp' = [mcp EXCEPT ![r] =
                                   [phase |-> "importing", request |-> req,
                                    credentials |-> c, validation |-> validation,
                                    server |-> built.server, fetched |-> <<>>,
                                    response |-> NoResponse]]
                      /\ heap' = built.heap
       ELSE /\ mcp' = [mcp EXCEPT ![r] =
                         [phase |-> "responded", request |-> req,
                          credentials |-> Undefined, validation |-> Pending,
                          server |-> NoServer, fetched |-> <<>>,
                          response |-> RouteResponse(req)]]
            /\ UNCHANGED heap
  /\ UNCHANGED <<vars, beyondWorker>>

\* import('agents/mcp') resolves: createMcpHandler(server), handler(request, env, ctx)
ImportResolves(r) ==
  /\ mcp[r].phase = "importing"
  /\ mcp' = [mcp EXCEPT ![r].phase = "handling"]
  /\ UNCHANGED <<heap, vars, beyondWorker>>

\* the request calls a tool: its handler calls the client, which derives the
\* auth headers and issues fetch
ToolCall(r, m) ==
  /\ mcp[r].phase = "handling"
  /\ LET auth == getAuthHeaders(ClientAt(mcp[r].server.client).credentials)
     IN IF auth.tag = "thrown"
          THEN mcp' = [mcp EXCEPT ![r].phase = "responded",
                                  ![r].response = Response(200, [status |-> "tool result"])]
          ELSE mcp' = [mcp EXCEPT ![r].phase = "awaiting",
                                  ![r].fetched = <<Spread(auth.value, CallerHeaders(m))>>]
  /\ UNCHANGED <<heap, vars, beyondWorker>>

\* the request calls no tool (initialize, tools/list)
NoToolCall(r) ==
  /\ mcp[r].phase = "handling"
  /\ mcp' = [mcp EXCEPT ![r].phase = "responded",
                        ![r].response = Response(200, [status |-> "protocol result"])]
  /\ UNCHANGED <<heap, vars, beyondWorker>>

\* the provider call settles and the tool's block is sent back
ProviderSettles(r) ==
  /\ mcp[r].phase = "awaiting"
  /\ mcp' = [mcp EXCEPT ![r].phase = "responded",
                        ![r].response = Response(200, [status |-> "tool result"])]
  /\ UNCHANGED <<heap, vars, beyondWorker>>

WorkerNext ==
  \/ \E r \in Requests, req \in InboundRequests : Receive(r, req)
  \/ \E r \in Requests : ImportResolves(r)
  \/ \E r \in Requests, m \in Methods : ToolCall(r, m)
  \/ \E r \in Requests : NoToolCall(r)
  \/ \E r \in Requests : ProviderSettles(r)

SpecWorker == WorkerInit /\ [][WorkerNext]_<<vars, beyondClient>>

\* the request has come in under POST /mcp with acceptable credentials
Served(r) == mcp[r].phase /= "none" /\ mcp[r].server /= NoServer

\* the headers with which a provider call authenticates
AuthHeaderNames == {"Authorization", "X-Auth-Email", "X-Auth-Key"}

\* every string that gives away a secret of the tenant
SecretsOf(tenant) ==
  {ApiTokenOf(tenant), "Bearer " \o ApiTokenOf(tenant), EmailOf(tenant), ApiKeyOf(tenant),
   AccountIdOf(tenant)}

\* C11: under every interleaving of concurrent /mcp requests, each request
\* resolves its own credentials and constructs its own client, and every
\* outbound provider call carries auth headers derived only from the
\* credentials of the inbound request that caused it; no client instance and
\* no credential value is shared between requests.
C11_TenantIsolation ==
  \A r \in Requests :
    Served(r) =>
      LET own == parseTenantCredentials(mcp[r].request)
          others == Tenants \ {mcp[r].request.tenant}
      IN /\ mcp[r].credentials = own
         /\ \A o \in heap : o.ref = mcp[r].server.client => o.credentials = own
         /\ \E o \in heap : o.ref = mcp[r].server.client
         /\ \A q \in Requests \ {r} :
              Served(q) => mcp[q].server.client /= mcp[r].server.client
         /\ \A i \in 1..Len(mcp[r].fetched) :
              LET sent == mcp[r].fetched[i]
                  derived == getAuthHeaders(own).value
              IN /\ \A k \in AuthHeaderNames :
                      /\ k \in DOMAIN sent <=> k \in DOMAIN derived
                      /\ k \in DOMAIN sent => sent[k] = derived[k]
                 /\ \A k \in DOMAIN sent, t \in others : sent[k] \notin SecretsOf(t)

C11_Witness ==
  \E r, q \in Requests :
    /\ mcp[r].phase = "awaiting"
    /\ mcp[q].phase = "awaiting"
    /\ mcp[r].request.tenant = "tenantA"
    /\ mcp[q].request.tenant = "tenantB"
    /\ "Authorization" \in DOMAIN mcp[r].fetched[1]
    /\ mcp[r].fetched[1]["Authorization"] = "Bearer tenantA-token"
    /\ "X-Auth-Key" \in DOMAIN mcp[q].fetched[1]
    /\ mcp[q].fetched[1]["X-Auth-Key"] = "tenantB-key"

\* C14: validateCredentials succeeds silently if and only if the credentials
\* hold a bearer token or both email and legacy key; in every other case it
\* fails with AuthenticationError whose message names the two acceptable
\* header combinations.
C14_ValidateCredentials ==
  \A r \in Requests :
    (mcp[r].phase /= "none" /\ mcp[r].validation /= Pending) =>
      IF HasBearerToken(mcp[r].credentials) \/ HasLegacyPair(mcp[r].credentials)
        THEN mcp[r].validation = Returned(Undefined)
        ELSE /\ mcp[r].validation.tag = "thrown"
             /\ mcp[r].validation.error.name = "AuthenticationError"
             /\ mcp[r].validation.error.message = MissingCredentialsMessage

(***************************************************************************)
(* A client in service: the worker constructs it from credentials that     *)
(* passed validateCredentials, and invocations follow one another.         *)
(***************************************************************************)
\* the credentials createStatelessServer is called with
ServedCredentials ==
  {c \in {parseTenantCredentials([headers |-> h]) : h \in InboundHeaders("tenantA")} :
     validateCredentials(c).tag = "returned"}

SequenceInit ==
  /\ credentials \in ServedCredentials
  /\ pc = "idle"
  /\ method = "none"
  /\ authHeaders = Pending
  /\ fetched = <<>>
  /\ response = NoResponse
  /\ bodyRead = "none"
  /\ dispatched = Pending
  /\ outcome = Pending
  /\ AsConstructed
  /\ PaginationIdle
  /\ WorkerIdle
  /\ ToolsIdle
  /\ FormatIdle

\* the variables the client's steps leave alone, failedBefore apart
besideSequence == <<constructedWith, pgVars, mcpVars, toolVars, fmVars>>

\* the caller takes the settled promise, and with it the failure if there is one
SettleFollowed ==
  /\ Settle
  /\ failedBefore' = (failedBefore \/ outcome.tag = "thrown")
  /\ UNCHANGED besideSequence

SequenceNext ==
  \/ (\E m \in Methods : Invoke(m)) /\ UNCHANGED <<failedBefore, besideSequence>>
  \/ (\E r \in ResponsesFor(method) : RespondJson(r))
       /\ UNCHANGED <<failedBefore, besideSequence>>
  \/ (\E r \in ResponsesFor(method) : RespondRaw(r))
       /\ UNCHANGED <<failedBefore, besideSequence>>
  \/ TransportError /\ UNCHANGED <<failedBefore, besideSequence>>
  \/ SettleFollowed

SpecSequence == SequenceInit /\ [][SequenceNext]_<<vars, beyondClient>>

\* what a client newly constructed with credentials c produces for method m
\* and the provider's answer of this invocation
FreshOutcome(c, m) ==
  LET auth == getAuthHeaders(c)
  IN IF auth.tag = "thrown" THEN MethodResult(m, auth)
     ELSE IF response = NoResponse THEN MethodResult(m, Thrown(FetchError))
     ELSE MethodResult(m, Dispatch(m, response).result)

\* C12: every error is scoped to one invocation: an operation, whether it
\* succeeds or fails, leaves the client's credentials as they were at
\* construction, and an invocation that follows a failed one has the outcome
\* a newly constructed client with the same credentials would have.
C12_ErrorScopedToInvocation ==
  /\ credentials = constructedWith
  /\ pc = "done" => outcome = FreshOutcome(constructedWith, method)

C12_Witness ==
  /\ failedBefore
  /\ pc = "done"
  /\ method = "getZone"
  /\ outcome.tag = "returned"
  /\ credentials = constructedWith

(***************************************************************************)
(* The formatters (src/src/utils/formatters.ts).  A text is a string.  An  *)
(* object lists its keys in the order in which they were inserted, which   *)
(* KeyOrder fixes for the keys that occur; a key holds a string, a number, *)
(* a boolean or a tagged value according to its name.                      *)
(***************************************************************************)
Str(s) == [t |-> "string", s |-> s]

Bool(b) == [t |-> "boolean", b |-> b]

KeyOrder ==
  <<"success", "error", "message", "details", "deleted", "result",
    "items", "count", "total", "hasMore", "cursor", "page", "totalPages",
    "keys", "list_complete", "connected", "nested",
    "id", "uuid", "short_id", "name", "title", "type", "status", "content", "ttl",
    "proxied", "plan", "handlers", "modified_on", "num_tables", "file_size",
    "location", "creation_date", "subdomain", "domains", "environment", "url",
    "stages", "created_on", "enabled", "default_pools", "steering_policy", "email",
    "statusCode">>

StringKeys ==
  {"error", "message", "deleted", "id", "uuid", "short_id", "name", "title", "type",
   "status", "content", "modified_on", "location", "creation_date", "subdomain",
   "environment", "url", "created_on", "steering_policy", "email"}

\* a string, or undefined
OptionalStringKeys == {"cursor"}

NumberKeys ==
  {"count", "total", "page", "totalPages", "ttl", "num_tables", "file_size",
   "statusCode"}

BooleanKeys == {"success", "hasMore", "list_complete", "connected", "proxied", "enabled"}

PrimitiveKeys == StringKeys \cup OptionalStringKeys \cup NumberKeys \cup BooleanKeys

\* Object.keys
ObjectKeys(obj) == SelectSeq(KeyOrder, LAMBDA k : k \in DOMAIN obj)

\* the property is there and is not undefined
Defined(obj, k) ==
  /\ k \in DOMAIN obj
  /\ IF k \in OptionalStringKeys THEN obj[k] /= UNDEFINED
     ELSE IF k \in PrimitiveKeys THEN TRUE
     ELSE obj[k] /= Undefined

\* Array.prototype.join
RECURSIVE Join(_, _)
Join(strings, separator) ==
  IF Len(strings) = 0 THEN ""
  ELSE IF Len(strings) = 1 THEN strings[1]
  ELSE strings[1] \o separator \o Join(Tail(strings), separator)

\* the characters a JSON string escapes: the quotation mark and the backslash
NeedsEscape(c) == c = "\"" \/ c = "\\"

\* a string with its escapes, found one special character at a time
RECURSIVE Escaped(_)
Escaped(s) ==
  IF \E i \in 1..Len(s) : NeedsEscape(SubSeq(s, i, i))
    THEN LET i == CHOOSE i \in 1..Len(s) :
                    /\ NeedsEscape(SubSeq(s, i, i))
                    /\ \A j \in 1..(i - 1) : ~NeedsEscape(SubSeq(s, j, j))
         IN SubSeq(s, 1, i - 1) \o "\\" \o SubSeq(s, i, i)
              \o Escaped(SubSeq(s, i + 1, Len(s)))
  ELSE s

Quoted(s) == "\"" \o Escaped(s) \o "\""

\* String(number) and the number of a template literal
NumberString(n) == ToString(n)

\* JSON.stringify(value, null, 2) of a value other than undefined, at an
\* indentation: properties that are undefined are left out, undefined and NaN
\* inside an array become null
RECURSIVE JsonString(_, _)
JsonString(v, indent) ==
  LET deeper == indent \o "  "
      Property(k) ==
        deeper \o Quoted(k) \o ": " \o
          (IF k \in StringKeys \cup OptionalStringKeys THEN Quoted(v[k])
           ELSE IF k \in NumberKeys THEN NumberString(v[k])
           ELSE IF k \in BooleanKeys THEN (IF v[k] THEN "true" ELSE "false")
           ELSE JsonString(v[k], deeper))
  IN IF v.t = "string" THEN Quoted(v.s)
     ELSE IF v.t = "number" THEN NumberString(v.n)
     ELSE IF v.t = "boolean" THEN (IF v.b THEN "true" ELSE "false")
     ELSE IF v.t \in {"null", "undefined", "NaN"} THEN "null"
     ELSE IF v.t = "array"
       THEN IF Len(v.items) = 0 THEN "[]"
            ELSE "[\n"
                   \o Join([i \in 1..Len(v.items) |-> deeper \o JsonString(v.items[i], deeper)],
                           ",\n")
                   \o "\n" \o indent \o "]"
     ELSE LET keys == SelectSeq(ObjectKeys(v), LAMBDA k : Defined(v, k))
          IN IF Len(keys) = 0 THEN "{}"
             ELSE "{\n"
                    \o Join([i \in 1..Len(keys) |-> Property(keys[i])], ",\n")
                    \o "\n" \o indent \o "}"

\* JSON.stringify(value, null, 2): of undefined it is undefined
JSONstringify(value) == IF value = Undefined THEN UNDEFINED ELSE JsonString(value, "")

\* ${obj.k} in a template literal
Interpolated(obj, k) ==
  IF k \notin DOMAIN obj THEN "undefined"
  ELSE IF k \in StringKeys THEN obj[k]
  ELSE IF k \in OptionalStringKeys THEN obj[k]
  ELSE IF k \in NumberKeys THEN NumberString(obj[k])
  ELSE IF k \in BooleanKeys THEN (IF obj[k] THEN "true" ELSE "false")
  ELSE IF obj[k].t = "array" THEN Join([i \in 1..Len(obj[k].items) |-> obj[k].items[i].s], ",")
  ELSE IF obj[k].t = "object" THEN "[object Object]"
  ELSE obj[k].t

\* obj.k || fallback, for a string and for a number
StringOr(obj, k, fallback) ==
  IF k \in DOMAIN obj /\ obj[k] /= "" THEN obj[k] ELSE fallback

NumberOr(obj, k, fallback) ==
  IF k \in DOMAIN obj /\ obj[k] /= 0 THEN NumberString(obj[k]) ELSE fallback

\* obj.k ? 'Yes' : 'No'
YesNo(obj, k) == IF k \in DOMAIN obj /\ obj[k] THEN "Yes" ELSE "No"

\* obj.k?.join(', ') || '-', of an array of strings
JoinedOrDash(obj, k) ==
  IF Defined(obj, k) /\ obj[k].t = "array" /\ Len(obj[k].items) > 0
    THEN LET joined == Join([i \in 1..Len(obj[k].items) |-> obj[k].items[i].s], ", ")
         IN IF joined = "" THEN "-" ELSE joined
  ELSE "-"

\* the header line, the separator line and one line for every item
Table(header, separator, rows) == Join(<<header, separator>> \o rows, "\n")

\* one line of a table
Cells(cells) == "| " \o Join(cells, " | ") \o " |"

\* the rows of an array, each made by Row
Rows(array, Row(_)) == [i \in 1..Len(array.items) |-> Row(array.items[i])]

\* lines 176-188
formatZonesTable(zones) ==
  LET plan(zone) ==
        IF Defined(zone, "plan") /\ zone.plan.t = "object"
          THEN StringOr(zone.plan, "name", "-")
        ELSE "-"
      Row(zone) ==
        Cells(<<Interpolated(zone, "id"), Interpolated(zone, "name"),
                Interpolated(zone, "status"), plan(zone), Interpolated(zone, "type")>>)
  IN Returned(Table("| ID | Name | Status | Plan | Type |", "|---|---|---|---|---|",
                    Rows(zones, Row)))

\* lines 193-207; record.content.length throws on a record without content
formatDnsRecordsTable(records) ==
  LET content(record) ==
        IF Len(record.content) > 40 THEN SubSeq(record.content, 1, 40) \o "..."
        ELSE record.content
      Row(record) ==
        Cells(<<Interpolated(record, "id"), Interpolated(record, "type"),
                Interpolated(record, "name"), content(record),
                Interpolated(record, "ttl"), YesNo(record, "proxied")>>)
  IN IF \E i \in 1..Len(records.items) : "content" \notin DOMAIN records.items[i]
       THEN Thrown(TypeError)
     ELSE Returned(Table("| ID | Type | Name | Content | TTL | Proxied |",
                         "|---|---|---|---|---|---|", Rows(records, Row)))

\* lines 212-223
formatWorkersTable(workers) ==
  LET Row(worker) ==
        Cells(<<Interpolated(worker, "id"), JoinedOrDash(worker, "handlers"),
                StringOr(worker, "modified_on", "-")>>)
  IN Returned(Table("| ID | Handlers | Modified |", "|---|---|---|", Rows(workers, Row)))

\* lines 228-238
formatKvNamespacesTable(namespaces) ==
  LET Row(ns) == Cells(<<Interpolated(ns, "id"), Interpolated(ns, "title")>>)
  IN Returned(Table("| ID | Title |", "|---|---|", Rows(namespaces, Row)))

\* (n / 1024).toFixed(2)
KilobytesFixed2(n) ==
  LET hundredths == (n * 200 + 1024) \div 2048
      fraction == hundredths % 100
  IN NumberString(hundredths \div 100) \o "."
       \o (IF fraction < 10 THEN "0" ELSE "") \o NumberString(fraction)

\* lines 243-254
formatD1DatabasesTable(databases) ==
  LET size(db) ==
        IF "file_size" \in DOMAIN db /\ db.file_size /= 0
          THEN KilobytesFixed2(db.file_size) \o " KB"
        ELSE "-"
      Row(db) ==
        Cells(<<Interpolated(db, "uuid"), Interpolated(db, "name"),
                NumberOr(db, "num_tables", "-"), size(db)>>)
  IN Returned(Table("| UUID | Name | Tables | Size |", "|---|---|---|---|",
                    Rows(databases, Row)))

\* lines 259-269
formatR2BucketsTable(buckets) ==
  LET Row(bucket) ==
        Cells(<<Interpolated(bucket, "name"), StringOr(bucket, "location", "-"),
                StringOr(bucket, "creation_date", "-")>>)
  IN Returned(Table("| Name | Location | Created |", "|---|---|---|", Rows(buckets, Row)))

\* lines 274-287
formatPagesProjectsTable(projects) ==
  LET Row(project) ==
        Cells(<<Interpolated(project, "name"),
                Interpolated(project, "subdomain") \o ".pages.dev",
                JoinedOrDash(project, "domains"), StringOr(project, "created_on", "-")>>)
  IN Returned(Table("| Name | Subdomain | Domains | Created |", "|---|---|---|---|",
                    Rows(projects, Row)))

\* lines 292-305
formatDeploymentsTable(deployments) ==
  LET status(deployment) ==
        IF Defined(deployment, "stages") /\ deployment.stages.t = "array"
             /\ \E i \in 1..Len(deployment.stages.items) :
                  Interpolated(deployment.stages.items[i], "name") = "build"
          THEN LET stages == deployment.stages.items
                   first == CHOOSE i \in 1..Len(stages) :
                              /\ Interpolated(stages[i], "name") = "build"
                              /\ \A j \in 1..(i - 1) : Interpolated(stages[j], "name") /= "build"
               IN StringOr(stages[first], "status", "-")
        ELSE "-"
      Row(deployment) ==
        Cells(<<Interpolated(deployment, "short_id"), Interpolated(deployment, "environment"),
                Interpolated(deployment, "url"), status(deployment),
                StringOr(deployment, "created_on", "-")>>)
  IN Returned(Table("| ID | Environment | URL | Status | Created |", "|---|---|---|---|---|",
                    Rows(deployments, Row)))

\* lines 310-322; lb.default_pools.length throws on a balancer without pools
formatLoadBalancersTable(lbs) ==
  LET Row(lb) ==
        Cells(<<Interpolated(lb, "id"), Interpolated(lb, "name"), YesNo(lb, "enabled"),
                NumberString(Len(lb.default_pools.items)),
                StringOr(lb, "steering_policy", "off")>>)
  IN IF \E i \in 1..Len(lbs.items) : ~Defined(lbs.items[i], "default_pools")
       THEN Thrown(TypeError)
     ELSE Returned(Table("| ID | Name | Enabled | Pools | Steering |", "|---|---|---|---|---|",
                         Rows(lbs, Row)))

\* lines 327-350; the items are objects
formatGenericTable(items) ==
  IF Len(items.items) = 0 THEN Returned("_No items_")
  ELSE LET first == items.items[1]
           keys == SubSeq(ObjectKeys(first), 1, IF Len(ObjectKeys(first)) < 5
                                                  THEN Len(ObjectKeys(first)) ELSE 5)
           value(record, k) ==
             IF ~Defined(record, k) THEN "-"
             ELSE IF k \notin PrimitiveKeys
               THEN (IF record[k].t = "null" THEN "-" ELSE "[object]")
             ELSE LET str == Interpolated(record, k)
                  IN IF Len(str) > 30 THEN SubSeq(str, 1, 30) \o "..." ELSE str
           Row(record) == Cells([i \in 1..Len(keys) |-> value(record, keys[i])])
       IN Returned(Table(Cells(keys),
                         "|" \o Join([i \in 1..Len(keys) |-> "---"], "|") \o "|",
                         Rows(items, Row)))

\* lines 355-367
formatArrayAsMarkdown(data, entityType) ==
  IF entityType = "zones" THEN formatZonesTable(data)
  ELSE IF entityType = "dns_records" THEN formatDnsRecordsTable(data)
  ELSE IF entityType = "workers" THEN formatWorkersTable(data)
  ELSE formatGenericTable(data)

LowerCase == "abcdefghijklmnopqrstuvwxyz"

UpperCase == "ABCDEFGHIJKLMNOPQRSTUVWXYZ"

\* String.prototype.toUpperCase of one character
ToUpperCase(c) ==
  IF \E i \in 1..Len(LowerCase) : SubSeq(LowerCase, i, i) = c
    THEN LET i == CHOOSE i \in 1..Len(LowerCase) : SubSeq(LowerCase, i, i) = c
         IN SubSeq(UpperCase, i, i)
  ELSE c

\* lines 398-400
capitalize(str) ==
  IF Len(str) = 0 THEN "" ELSE ToUpperCase(SubSeq(str, 1, 1)) \o SubSeq(str, 2, Len(str))

\* String.prototype.split at a one-character separator
RECURSIVE Split(_, _)
Split(str, separator) ==
  IF \E i \in 1..Len(str) : SubSeq(str, i, i) = separator
    THEN LET i == CHOOSE i \in 1..Len(str) :
                    /\ SubSeq(str, i, i) = separator
                    /\ \A j \in 1..(i - 1) : SubSeq(str, j, j) /= separator
         IN <<SubSeq(str, 1, i - 1)>> \o Split(SubSeq(str, i + 1, Len(str)), separator)
  ELSE <<str>>

\* lines 405-410
formatKey(key) ==
  LET words == Split(key, "_")
  IN Join([i \in 1..Len(words) |-> capitalize(words[i])], " ")

\* entityType.replace(/s$/, '').replace(/_/g, ' ')
SingularWords(entityType) ==
  LET singular ==
        IF Len(entityType) > 0 /\ SubSeq(entityType, Len(entityType), Len(entityType)) = "s"
          THEN SubSeq(entityType, 1, Len(entityType) - 1)
        ELSE entityType
  IN Join(Split(singular, "_"), " ")

\* the fence of a code block: three grave accents, written here with tildes
CodeFence == "~~~"

\* lines 372-393
formatObjectAsMarkdown(data, entityType) ==
  LET keys == SelectSeq(ObjectKeys(data),
                        LAMBDA k : Defined(data, k) /\ (k \in PrimitiveKeys \/ data[k].t /= "null"))
      entry(k) ==
        IF k \in PrimitiveKeys
          THEN <<"**" \o formatKey(k) \o ":** " \o Interpolated(data, k)>>
        ELSE <<"**" \o formatKey(k) \o ":**", CodeFence \o "json", JsonString(data[k], ""),
                CodeFence>>
      RECURSIVE entries(_)
      entries(ks) == IF Len(ks) = 0 THEN <<>> ELSE entry(Head(ks)) \o entries(Tail(ks))
  IN Returned(Join(<<"## " \o capitalize(SingularWords(entityType)), "">> \o entries(keys),
                   "\n"))

\* lines.push(table) and lines.join, unless making the table has thrown
JoinedWith(lines, table) ==
  IF table.tag = "thrown" THEN table ELSE Returned(Join(Append(lines, table.value), "\n"))

\* lines 137-168
EntityTable(items, entityType) ==
  IF entityType = "zones" THEN formatZonesTable(items)
  ELSE IF entityType = "dns_records" THEN formatDnsRecordsTable(items)
  ELSE IF entityType = "workers" THEN formatWorkersTable(items)
  ELSE IF entityType = "kv_namespaces" THEN formatKvNamespacesTable(items)
  ELSE IF entityType = "d1_databases" THEN formatD1DatabasesTable(items)
  ELSE IF entityType = "r2_buckets" THEN formatR2BucketsTable(items)
  ELSE IF entityType = "pages_projects" THEN formatPagesProjectsTable(items)
  ELSE IF entityType = "deployments" THEN formatDeploymentsTable(items)
  ELSE IF entityType = "load_balancers" THEN formatLoadBalancersTable(items)
  ELSE formatGenericTable(items)

\* lines 116-129
PaginatedHeading(data, entityType) ==
  <<"## " \o capitalize(entityType), "",
    IF "total" \in DOMAIN data
      THEN "**Total:** " \o Interpolated(data, "total") \o " | **Showing:** "
             \o Interpolated(data, "count")
    ELSE "**Showing:** " \o Interpolated(data, "count")>>
    \o (IF data.hasMore /\ "page" \in DOMAIN data
          THEN <<"**More available:** Yes (page " \o Interpolated(data, "page") \o ")">>
        ELSE IF data.hasMore THEN <<"**More available:** Yes">>
        ELSE <<>>)
    \o <<"">>

\* lines 113-171
formatPaginatedAsMarkdown(data, entityType) ==
  IF Len(data.items.items) = 0
    THEN Returned(Join(Append(PaginatedHeading(data, entityType), "_No items found._"), "\n"))
  ELSE JoinedWith(PaginatedHeading(data, entityType), EntityTable(data.items, entityType))

\* lines 101-108
isPaginatedResponse(data) ==
  data.t = "object" /\ "items" \in DOMAIN data /\ data.items.t = "array"

\* String(data) of a value that is no object
StringOf(data) ==
  IF data.t = "string" THEN data.s
  ELSE IF data.t = "number" THEN NumberString(data.n)
  ELSE IF data.t = "boolean" THEN (IF data.b THEN "true" ELSE "false")
  ELSE data.t

\* lines 82-96
formatAsMarkdown(data, entityType) ==
  IF isPaginatedResponse(data) THEN formatPaginatedAsMarkdown(data, entityType)
  ELSE IF data.t = "array" THEN formatArrayAsMarkdown(data, entityType)
  ELSE IF data.t = "object" THEN formatObjectAsMarkdown(data, entityType)
  ELSE Returned(StringOf(data))

\* a ToolResponse with one text item; isError is left out or true
TextBlock(text) == [content |-> <<[type |-> "text", text |-> text]>>]

ErrorBlock(text) == [content |-> <<[type |-> "text", text |-> text]>>, isError |-> TRUE]

\* the block around a text, unless making the text has thrown
BlockOf(text) == IF text.tag = "thrown" THEN text ELSE Returned(TextBlock(text.value))

\* lines 35-48
formatResponse(data, format, entityType) ==
  IF format = "markdown" THEN BlockOf(formatAsMarkdown(data, entityType))
  ELSE Returned(TextBlock(JSONstringify(data)))

(***************************************************************************)
(* The tools (src/src/tools and createStatelessServer).  Each handler      *)
(* awaits one client method inside try, and returns a ToolResponse.        *)
(* Every tool is described by the client method its handler awaits, by     *)
(* what the handler does with the value (kind), by the entity type it      *)
(* hands to formatResponse, by whether it takes a format argument, and by  *)
(* how it treats a JSON-array argument that does not parse.                *)
(*   format     return formatResponse(value, format, entityType)           *)
(*   wrap       the value is wrapped as { items, count: length, hasMore }  *)
(*   kvkeys     the key listing is wrapped with its cursor                 *)
(*   d1query    the result sets are mapped, then formatted                 *)
(*   message    a success message that carries the value                   *)
(*   messageOf  a success message that reads a property of the value       *)
(*   void       a success message; the method returns nothing              *)
(*   text       the text the method returned                               *)
(***************************************************************************)
\* registerZoneTools
ZoneTools ==
  {[name |-> "cloudflare_list_zones", method |-> "listZones",
    kind |-> "format", entityType |-> "zones", takesFormat |-> TRUE, parses |-> "none"],
   [name |-> "cloudflare_get_zone", method |-> "getZone",
    kind |-> "format", entityType |-> "zone", takesFormat |-> TRUE, parses |-> "none"],
   [name |-> "cloudflare_create_zone", method |-> "createZone",
    kind |-> "message", entityType |-> "none", takesFormat |-> FALSE, parses |-> "none"],
   [name |-> "cloudflare_update_zone", method |-> "updateZone",
    kind |-> "message", entityType |-> "none", takesFormat |-> FALSE, parses |-> "none"],
   [name |-> "cloudflare_delete_zone", method |-> "deleteZone",
    kind |-> "messageOf", entityType |-> "none", takesFormat |-> FALSE, parses |-> "none"],
   [name |-> "cloudflare_get_zone_settings", method |-> "getZoneSettings",
    kind |-> "format", entityType |-> "zone_settings", takesFormat |-> TRUE, parses |-> "none"],
   [name |-> "cloudflare_update_zone_setting", method |-> "updateZoneSetting",
    kind |-> "message", entityType |-> "none", takesFormat |-> FALSE, parses |-> "none"],
   [name |-> "cloudflare_zone_activation_check", method |-> "activationCheck",
    kind |-> "messageOf", entityType |-> "none", takesFormat |-> FALSE, parses |-> "none"]}

\* registerKvTools
KvTools ==
  {[name |-> "cloudflare_list_kv_namespaces", method |-> "listKvNamespaces",
    kind |-> "format", entityType |-> "kv_namespaces", takesFormat |-> TRUE, parses |-> "none"],
   [name |-> "cloudflare_get_kv_namespace", method |-> "getKvNamespace",
    kind |-> "format", entityType |-> "kv_namespace", takesFormat |-> TRUE, parses |-> "none"],
   [name |-> "cloudflare_create_kv_namespace", method |-> "createKvNamespace",
    kind |-> "message", entityType |-> "none", takesFormat |-> FALSE, parses |-> "none"],
   [name |-> "cloudflare_rename_kv_namespace", method |-> "renameKvNamespace",
    kind |-> "void", entityType |-> "none", takesFormat |-> FALSE, parses |-> "none"],
   [name |-> "cloudflare_delete_kv_namespace", method |-> "deleteKvNamespace",
    kind |-> "void", entityType |-> "none", takesFormat |-> FALSE, parses |-> "none"],
   [name |-> "cloudflare_list_kv_keys", method |-> "listKvKeys",
    kind |-> "kvkeys", entityType |-> "kv_keys", takesFormat |-> TRUE, parses |-> "none"],
   [name |-> "cloudflare_get_kv_value", method |-> "getKvValue",
    kind |-> "text", entityType |-> "none", takesFormat |-> FALSE, parses |-> "none"],
   [name |-> "cloudflare_put_kv_value", method |-> "putKvValue",
    kind |-> "void", entityType |-> "none", takesFormat |-> FALSE, parses |-> "none"],
   [name |-> "cloudflare_delete_kv_value", method |-> "deleteKvValue",
    kind |-> "void", entityType |-> "none", takesFormat |-> FALSE, parses |-> "none"]}

\* registerDnsTools
DnsTools ==
  {[name |-> "cloudflare_list_dns_records", method |-> "listDnsRecords",
    kind |-> "format", entityType |-> "dns_records", takesFormat |-> TRUE, parses |-> "none"],
   [name |-> "cloudflare_get_dns_record", method |-> "getDnsRecord",
    kind |-> "format", entityType |-> "dns_record", takesFormat |-> TRUE, parses |-> "none"],
   [name |-> "cloudflare_create_dns_record", method |-> "createDnsRecord",
    kind |-> "messageOf", entityType |-> "none", takesFormat |-> FALSE, parses |-> "none"],
   [name |-> "cloudflare_update_dns_record", method |-> "updateDnsRecord",
    kind |-> "messageOf", entityType |-> "none", takesFormat |-> FALSE, parses |-> "none"],
   [name |-> "cloudflare_delete_dns_record", method |-> "deleteDnsRecord",
    kind |-> "messageOf", entityType |-> "none", takesFormat |-> FALSE, parses |-> "none"],
   [name |-> "cloudflare_export_dns_records", method |-> "exportDnsRecords",
    kind |-> "text", entityType |-> "none", takesFormat |-> FALSE, parses |-> "none"],
   [name |-> "cloudflare_import_dns_records", method |-> "importDnsRecords",
    kind |-> "messageOf", entityType |-> "none", takesFormat |-> FALSE, parses |-> "none"]}

\* registerWorkersTools
WorkersTools ==
  {[name |-> "cloudflare_list_workers", method |-> "listWorkers",
    kind |-> "wrap", entityType |-> "workers", takesFormat |-> TRUE, parses |-> "none"],
   [name |-> "cloudflare_get_worker", method |-> "getWorker",
    kind |-> "text", entityType |-> "none", takesFormat |-> FALSE, parses |-> "none"],
   [name |-> "cloudflare_delete_worker", method |-> "deleteWorker",
    kind |-> "void", entityType |-> "none", takesFormat |-> FALSE, parses |-> "none"],
   [name |-> "cloudflare_list_worker_routes", method |-> "listWorkerRoutes",
    kind |-> "wrap", entityType |-> "worker_routes", takesFormat |-> TRUE, parses |-> "none"],
   [name |-> "cloudflare_create_worker_route", method |-> "createWorkerRoute",
    kind |-> "message", entityType |-> "none", takesFormat |-> FALSE, parses |-> "none"],
   [name |-> "cloudflare_delete_worker_route", method |-> "deleteWorkerRoute",
    kind |-> "void", entityType |-> "none", takesFormat |-> FALSE, parses |-> "none"],
   [name |-> "cloudflare_get_worker_cron_triggers", method |-> "getWorkerCronTriggers",
    kind |-> "wrap", entityType |-> "cron_triggers", takesFormat |-> TRUE, parses |-> "none"],
   [name |-> "cloudflare_list_worker_secrets", method |-> "listWorkerSecrets",
    kind |-> "wrap", entityType |-> "worker_secrets", takesFormat |-> TRUE, parses |-> "none"]}

\* registerD1Tools
D1Tools ==
  {[name |-> "cloudflare_list_d1_databases", method |-> "listD1Databases",
    kind |-> "format", entityType |-> "d1_databases", takesFormat |-> TRUE, parses |-> "none"],
   [name |-> "cloudflare_get_d1_database", method |-> "getD1Database",
    kind |-> "format", entityType |-> "d1_database", takesFormat |-> TRUE, parses |-> "none"],
   [name |-> "cloudflare_create_d1_database", method |-> "createD1Database",
    kind |-> "message", entityType |-> "none", takesFormat |-> FALSE, parses |-> "none"],
   [name |-> "cloudflare_delete_d1_database", method |-> "deleteD1Database",
    kind |-> "void", entityType |-> "none", takesFormat |-> FALSE, parses |-> "none"],
   [name |-> "cloudflare_query_d1_database", method |-> "queryD1Database",
    kind |-> "d1query", entityType |-> "d1_query_results", takesFormat |-> TRUE, parses |-> "strict"]}

\* registerR2Tools
R2Tools ==
  {[name |-> "cloudflare_list_r2_buckets", method |-> "listR2Buckets",
    kind |-> "wrap", entityType |-> "r2_buckets", takesFormat |-> TRUE, parses |-> "none"],
   [name |-> "cloudflare_get_r2_bucket", method |-> "getR2Bucket",
    kind |-> "format", entityType |-> "r2_bucket", takesFormat |-> TRUE, parses |-> "none"],
   [name |-> "cloudflare_create_r2_bucket", method |-> "createR2Bucket",
    kind |-> "message", entityType |-> "none", takesFormat |-> FALSE, parses |-> "none"],
   [name |-> "cloudflare_delete_r2_bucket", method |-> "deleteR2Bucket",
    kind |-> "void", entityType |-> "none", takesFormat |-> FALSE, parses |-> "none"]}

\* registerSslTools
SslTools ==
  {[name |-> "cloudflare_list_ssl_certificates", method |-> "listSslCertificates",
    kind |-> "wrap", entityType |-> "ssl_certificates", takesFormat |-> TRUE, parses |-> "none"]}

\* registerPagesTools
PagesTools ==
  {[name |-> "cloudflare_list_pages_projects", method |-> "listPagesProjects",
    kind |-> "wrap", entityType |-> "pages_projects", takesFormat |-> TRUE, parses |-> "none"],
   [name |-> "cloudflare_get_pages_project", method |-> "getPagesProject",
    kind |-> "format", entityType |-> "pages_project", takesFormat |-> TRUE, parses |-> "none"],
   [name |-> "cloudflare_create_pages_project", method |-> "createPagesProject",
    kind |-> "messageOf", entityType |-> "none", takesFormat |-> FALSE, parses |-> "none"],
   [name |-> "cloudflare_delete_pages_project", method |-> "deletePagesProject",
    kind |-> "void", entityType |-> "none", takesFormat |-> FALSE, parses |-> "none"],
   [name |-> "cloudflare_list_pages_deployments", method |-> "listPagesDeployments",
    kind |-> "wrap", entityType |-> "deployments", takesFormat |-> TRUE, parses |-> "none"],
   [name |-> "cloudflare_get_pages_deployment", method |-> "getPagesDeployment",
    kind |-> "format", entityType |-> "deployment", takesFormat |-> TRUE, parses |-> "none"],
   [name |-> "cloudflare_delete_pages_deployment", method |-> "deletePagesDeployment",
    kind |-> "void", entityType |-> "none", takesFormat |-> FALSE, parses |-> "none"],
   [name |-> "cloudflare_rollback_pages_deployment", method |-> "rollbackPagesDeployment",
    kind |-> "message", entityType |-> "none", takesFormat |-> FALSE, parses |-> "none"]}

\* registerAnalyticsTools
AnalyticsTools ==
  {[name |-> "cloudflare_get_zone_analytics", method |-> "getZoneAnalytics",
    kind |-> "format", entityType |-> "zone_analytics", takesFormat |-> TRUE, parses |-> "none"],
   [name |-> "cloudflare_get_dns_analytics", method |-> "getDnsAnalytics",
    kind |-> "format", entityType |-> "dns_analytics", takesFormat |-> TRUE, parses |-> "lenient"]}

\* registerCacheTools
CacheTools ==
  {[name |-> "cloudflare_purge_all_cache", method |-> "purgeCache",
    kind |-> "messageOf", entityType |-> "none", takesFormat |-> FALSE, parses |-> "none"],
   [name |-> "cloudflare_purge_cache_by_url", method |-> "purgeCache",
    kind |-> "messageOf", entityType |-> "none", takesFormat |-> FALSE, parses |-> "strict"],
   [name |-> "cloudflare_purge_cache_by_tag", method |-> "purgeCache",
    kind |-> "messageOf", entityType |-> "none", takesFormat |-> FALSE, parses |-> "strict"],
   [name |-> "cloudflare_purge_cache_by_host", method |-> "purgeCache",
    kind |-> "messageOf", entityType |-> "none", takesFormat |-> FALSE, parses |-> "strict"]}

\* registerFirewallTools
FirewallTools ==
  {[name |-> "cloudflare_list_firewall_rules", method |-> "listFirewallRules",
    kind |-> "wrap", entityType |-> "firewall_rules", takesFormat |-> TRUE, parses |-> "none"],
   [name |-> "cloudflare_get_firewall_rule", method |-> "getFirewallRule",
    kind |-> "format", entityType |-> "firewall_rule", takesFormat |-> TRUE, parses |-> "none"],
   [name |-> "cloudflare_create_firewall_rule", method |-> "createFirewallRule",
    kind |-> "messageOf", entityType |-> "none", takesFormat |-> FALSE, parses |-> "none"],
   [name |-> "cloudflare_update_firewall_rule", method |-> "updateFirewallRule",
    kind |-> "message", entityType |-> "none", takesFormat |-> FALSE, parses |-> "none"],
   [name |-> "cloudflare_delete_firewall_rule", method |-> "deleteFirewallRule",
    kind |-> "void", entityType |-> "none", takesFormat |-> FALSE, parses |-> "none"],
   [name |-> "cloudflare_list_filters", method |-> "listFilters",
    kind |-> "wrap", entityType |-> "filters", takesFormat |-> TRUE, parses |-> "none"]}

\* registerWafTools
WafTools ==
  {[name |-> "cloudflare_list_waf_packages", method |-> "listWafPackages",
    kind |-> "wrap", entityType |-> "waf_packages", takesFormat |-> TRUE, parses |-> "none"],
   [name |-> "cloudflare_list_waf_rules", method |-> "listWafRules",
    kind |-> "wrap", entityType |-> "waf_rules", takesFormat |-> TRUE, parses |-> "none"],
   [name |-> "cloudflare_update_waf_rule", method |-> "updateWafRule",
    kind |-> "message", entityType |-> "none", takesFormat |-> FALSE, parses |-> "none"]}

\* registerLoadBalancerTools
LoadBalancerTools ==
  {[name |-> "cloudflare_list_load_balancers", method |-> "listLoadBalancers",
    kind |-> "wrap", entityType |-> "load_balancers", takesFormat |-> TRUE, parses |-> "none"],
   [name |-> "cloudflare_get_load_balancer", method |-> "getLoadBalancer",
    kind |-> "format", entityType |-> "load_balancer", takesFormat |-> TRUE, parses |-> "none"],
   [name |-> "cloudflare_list_load_balancer_pools", method |-> "listLoadBalancerPools",
    kind |-> "wrap", entityType |-> "load_balancer_pools", takesFormat |-> TRUE, parses |-> "none"],
   [name |-> "cloudflare_get_load_balancer_pool", method |-> "getLoadBalancerPool",
    kind |-> "format", entityType |-> "load_balancer_pool", takesFormat |-> TRUE, parses |-> "none"],
   [name |-> "cloudflare_list_load_balancer_monitors", method |-> "listLoadBalancerMonitors",
    kind |-> "wrap", entityType |-> "load_balancer_monitors", takesFormat |-> TRUE, parses |-> "none"]}

\* registerAccountTools
AccountTools ==
  {[name |-> "cloudflare_get_user", method |-> "getUser",
    kind |-> "format", entityType |-> "user", takesFormat |-> TRUE, parses |-> "none"],
   [name |-> "cloudflare_list_accounts", method |-> "listAccounts",
    kind |-> "format", entityType |-> "accounts", takesFormat |-> TRUE, parses |-> "none"],
   [name |-> "cloudflare_get_account", method |-> "getAccount",
    kind |-> "format", entityType |-> "account", takesFormat |-> TRUE, parses |-> "none"],
   [name |-> "cloudflare_list_account_members", method |-> "listAccountMembers",
    kind |-> "format", entityType |-> "account_members", takesFormat |-> TRUE, parses |-> "none"]}

\* the tool createStatelessServer registers itself
ConnectionTools ==
  {[name |-> "cloudflare_test_connection", method |-> "testConnection",
    kind |-> "testConnection", entityType |-> "none", takesFormat |-> FALSE, parses |-> "none"]}

\* every tool of a server, in the order createStatelessServer registers them
RegisteredTools ==
  ZoneTools \cup DnsTools \cup WorkersTools \cup KvTools \cup D1Tools \cup R2Tools
    \cup PagesTools \cup CacheTools \cup FirewallTools \cup WafTools
    \cup LoadBalancerTools \cup SslTools \cup AccountTools \cup AnalyticsTools
    \cup ConnectionTools

\* the format argument of a tool that takes one
FormatsOf(t) == IF t.takesFormat THEN {"json", "markdown"} ELSE {"none"}

\* the tools whose JSON-array argument may be left out
OptionalArgumentTools == {"cloudflare_query_d1_database", "cloudflare_get_dns_analytics"}

\* the JSON-array argument of a tool that takes one: the text of an array, a
\* text that is no JSON, the JSON text of an object, or no argument
ArgumentsOf(t) ==
  IF t.parses = "none" THEN {"none"}
  ELSE IF t.name \in OptionalArgumentTools THEN {"array", "malformed", "notArray", "absent"}
  ELSE {"array", "malformed", "notArray"}

\* the serializer of utils/errors.ts: kind, message, and the status code where
\* the error has one
formatErrorForLogging(error) ==
  IF "statusCode" \in DOMAIN error
    THEN [t |-> "object", name |-> error.name, message |-> error.message,
          statusCode |-> error.statusCode]
    ELSE [t |-> "object", name |-> error.name, message |-> error.message]

\* error instanceof CloudflareApiError: of the error kinds, the ApiError is
\* the one that carries a retryable flag
InstanceOfCloudflareApiError(error) == error.name = "CloudflareApiError"

\* the retryable flag of CloudflareApiError, derived from the status class
Retryable(error) == "statusCode" \in DOMAIN error /\ error.statusCode \in 500..599

\* mutant of formatErrorResponse: the block is not flagged
formatErrorResponse_Unflagged(error) ==
  TextBlock(JSONstringify([t |-> "object", error |-> "Error: " \o error.message,
                           details |-> formatErrorForLogging(error)]))

\* mutant of formatErrorResponse: the suffix is added to every CloudflareApiError
formatErrorResponse_AlwaysRetryable(error) ==
  LET message ==
        IF InstanceOfCloudflareApiError(error)
          THEN "Error: " \o error.message \o " (retryable)"
        ELSE "Error: " \o error.message
  IN ErrorBlock(JSONstringify([t |-> "object", error |-> message,
                               details |-> formatErrorForLogging(error)]))

\* utils/formatters.ts, lines 53-77; every value thrown here is an Error
formatErrorResponse(error) ==
  LET message ==
        IF InstanceOfCloudflareApiError(error)
          THEN IF Retryable(error) THEN "Error: " \o error.message \o " (retryable)"
               ELSE "Error: " \o error.message
          ELSE "Error: " \o error.message
  IN ErrorBlock(JSONstringify([t |-> "object", error |-> message,
                               details |-> formatErrorForLogging(error)]))

\* the block of a strict tool whose JSON-array argument does not parse, or
\* parses to something that is no array
InvalidArgumentBlock(name) ==
  LET what == IF name = "cloudflare_purge_cache_by_url" THEN "URLs"
              ELSE IF name = "cloudflare_purge_cache_by_tag" THEN "tags"
              ELSE IF name = "cloudflare_purge_cache_by_host" THEN "hosts"
              ELSE "params"
      hint == IF name = "cloudflare_purge_cache_by_url"
                THEN "urls must be a valid JSON array of strings"
              ELSE IF name = "cloudflare_purge_cache_by_tag"
                THEN "tags must be a valid JSON array of strings"
              ELSE IF name = "cloudflare_purge_cache_by_host"
                THEN "hosts must be a valid JSON array of strings"
              ELSE "params must be a valid JSON array (e.g., '[\"value1\", 123]')"
  IN ErrorBlock(JSONstringify([t |-> "object", error |-> "Invalid " \o what \o " format",
                               message |-> hint]))

\* the message of a success block names the operation; the arguments it
\* quotes are not in the state
SuccessMessage(t) == t.name \o " succeeded"

\* what a formatting handler hands to formatResponse, unless reading a
\* property of undefined throws first
Formatted(t, value) ==
  IF t.kind = "format" THEN Returned(value)
  ELSE IF t.kind = "wrap"
    THEN IF value = Undefined THEN Thrown(TypeError)
         ELSE Returned([t |-> "object", items |-> value, count |-> Len(value.items),
                        hasMore |-> FALSE])
  ELSE IF t.kind = "kvkeys"
    THEN IF value.keys = Undefined THEN Thrown(TypeError)
         ELSE Returned([t |-> "object", items |-> value.keys,
                        count |-> Len(value.keys.items),
                        hasMore |-> ~value.list_complete, cursor |-> value.cursor])
  ELSE IF value = Undefined THEN Thrown(TypeError)
  ELSE IF \E i \in 1..Len(value.items) : "meta" \notin DOMAIN value.items[i]
    THEN Thrown(TypeError)
  ELSE Returned(Array(<<>>))

\* return formatResponse(data, format, entityType)
FormatResponseOf(data, format, entityType) ==
  IF data.tag = "thrown" THEN data ELSE formatResponse(data.value, format, entityType)

\* the object of a success message: the value goes into it, or nothing does
SuccessOf(t, value) ==
  IF t.kind = "void"
    THEN Returned([t |-> "object", success |-> TRUE, message |-> SuccessMessage(t)])
  ELSE IF t.kind = "messageOf" /\ value = Undefined THEN Thrown(TypeError)
  ELSE Returned([t |-> "object", success |-> TRUE, message |-> SuccessMessage(t),
                 result |-> value])

\* return { content: [{ type: 'text', text: JSON.stringify(message, null, 2) }] }
MessageBlockOf(message) ==
  IF message.tag = "thrown" THEN message
  ELSE Returned(TextBlock(JSONstringify(message.value)))

\* the statements of a handler's try block after the await: a block is
\* returned, or reading a property of undefined throws
AfterAwait(t, format, value) ==
  IF t.kind \in {"format", "wrap", "kvkeys", "d1query"}
    THEN FormatResponseOf(Formatted(t, value), format, t.entityType)
  ELSE IF t.kind \in {"message", "messageOf", "void"} THEN MessageBlockOf(SuccessOf(t, value))
  ELSE Returned(TextBlock(value))

\* catch (error) { return formatErrorResponse(error) }
Caught(tried) ==
  IF tried.tag = "thrown" THEN Returned(formatErrorResponse(tried.error)) ELSE tried

\* a handler from the await on: try { ... } catch (error) { return
\* formatErrorResponse(error) }, and the catch of cloudflare_test_connection
Handler(t, format, awaited) ==
  IF t.kind = "testConnection"
    THEN IF awaited.tag = "thrown"
           THEN Returned(ErrorBlock("Connection failed: " \o awaited.error.message))
           ELSE Returned(TextBlock(JSONstringify(awaited.value)))
  ELSE Caught(IF awaited.tag = "thrown" THEN awaited
              ELSE AfterAwait(t, format, awaited.value))

\* the tool a name stands for
ToolNamed(name) == CHOOSE t \in RegisteredTools : t.name = name

ToolsInit ==
  /\ credentials \in ServedCredentials
  /\ pc = "idle"
  /\ method = "none"
  /\ authHeaders = Pending
  /\ fetched = <<>>
  /\ response = NoResponse
  /\ bodyRead = "none"
  /\ dispatched = Pending
  /\ outcome = Pending
  /\ AsConstructed
  /\ PaginationIdle
  /\ WorkerIdle
  /\ ToolsIdle
  /\ FormatIdle

\* the variables outside the client and its tools
beyondTools == <<pgVars, mcpVars, seqVars, fmVars>>

\* a tool is invoked: its handler runs to the await of the client method.  A
\* strict tool returns at once when its argument is no JSON array; the lenient
\* tool passes a text that is no JSON on as a one-element array, and passes
\* an object on, whose join the client method then fails to call
InvokeTool(t, format, argument) ==
  /\ tool = NoTool
  /\ pc = "idle"
  /\ tool' = [name |-> t.name, format |-> format, argument |-> argument]
  /\ IF t.parses = "strict" /\ argument \in {"malformed", "notArray"}
       THEN /\ block' = Returned(InvalidArgumentBlock(t.name))
            /\ UNCHANGED vars
       ELSE IF t.parses = "lenient" /\ argument = "notArray"
       THEN /\ block' = Handler(t, format, Thrown(TypeError))
            /\ UNCHANGED vars
       ELSE /\ Invoke(t.method)
            /\ block' = IF pc' = "done" THEN Handler(t, format, outcome') ELSE Pending
  /\ UNCHANGED beyondTools

\* the client method settles and the handler finishes
ToolRespondJson(r) ==
  /\ tool /= NoTool
  /\ RespondJson(r)
  /\ block' = Handler(ToolNamed(tool.name), tool.format, outcome')
  /\ UNCHANGED <<tool, beyondTools>>

ToolRespondRaw(r) ==
  /\ tool /= NoTool
  /\ RespondRaw(r)
  /\ block' = Handler(ToolNamed(tool.name), tool.format, outcome')
  /\ UNCHANGED <<tool, beyondTools>>

ToolTransportError ==
  /\ tool /= NoTool
  /\ TransportError
  /\ block' = Handler(ToolNamed(tool.name), tool.format, outcome')
  /\ UNCHANGED <<tool, beyondTools>>

\* the block has gone back to the caller
ToolSettle ==
  /\ block /= Pending
  /\ tool' = NoTool
  /\ block' = Pending
  /\ IF pc = "done" THEN Settle ELSE UNCHANGED vars
  /\ UNCHANGED beyondTools

ToolsNext ==
  \/ /\ tool = NoTool
     /\ \E t \in RegisteredTools, format \in {"json", "markdown", "none"},
           argument \in {"array", "malformed", "notArray", "absent", "none"} :
          /\ format \in FormatsOf(t)
          /\ argument \in ArgumentsOf(t)
          /\ InvokeTool(t, format, argument)
  \/ \E r \in ResponsesFor(method) : ToolRespondJson(r)
  \/ \E r \in ResponsesFor(method) : ToolRespondRaw(r)
  \/ ToolTransportError
  \/ ToolSettle

SpecTools == ToolsInit /\ [][ToolsNext]_<<vars, beyondClient>>

\* the handler's block is flagged as an error
IsErrorBlock(b) == "isError" \in DOMAIN b /\ b.isError

\* C13: for every registered tool and every failure of its client call, the
\* handler catches the failure and returns an error text block flagged
\* isError = true: no failure leaves the handler as an exception, and no
\* invocation whose client call failed returns a block without the flag.
C13_FailuresBecomeErrorBlocks ==
  (tool /= NoTool /\ block /= Pending) =>
    /\ block.tag = "returned"
    /\ "content" \in DOMAIN block.value
    /\ block.value.content[1].type = "text"
    /\ (pc = "done" /\ outcome.tag = "thrown") => IsErrorBlock(block.value)

C13_Witness ==
  /\ tool /= NoTool
  /\ tool.name = "cloudflare_list_zones"
  /\ pc = "done"
  /\ FailedWith(outcome, "RateLimitError")
  /\ block.tag = "returned"
  /\ IsErrorBlock(block.value)

(***************************************************************************)
(* The formatters applied to arguments drawn from bounded sets, and the    *)
(* JSON text of a block parsed back.                                       *)
(***************************************************************************)
\* the entity types the tables know, and one they do not
KnownEntityTypes ==
  {"zones", "dns_records", "workers", "kv_namespaces", "d1_databases", "r2_buckets",
   "pages_projects", "deployments", "load_balancers"}

EntityTypes == KnownEntityTypes \cup {"kv_keys"}

\* two items of every entity type: one with its optional fields and one without
ItemsOf(entityType) ==
  IF entityType = "zones"
    THEN {[t |-> "object", id |-> "id1", name |-> "example.com", status |-> "active",
           plan |-> [t |-> "object", name |-> "Free"], type |-> "full"],
          [t |-> "object", id |-> "id2", name |-> "example.org", status |-> "pending",
           type |-> "partial"]}
  ELSE IF entityType = "dns_records"
    THEN {[t |-> "object", id |-> "id1", type |-> "A", name |-> "www", content |-> "192.0.2.1",
           ttl |-> 300, proxied |-> TRUE],
          [t |-> "object", id |-> "id2", type |-> "TXT", name |-> "txt",
           content |-> "v=spf1 include:_spf.example.com include:example.net ~all",
           ttl |-> 1, proxied |-> FALSE]}
  ELSE IF entityType = "workers"
    THEN {[t |-> "object", id |-> "id1",
           handlers |-> Array(<<Str("fetch"), Str("scheduled")>>),
           modified_on |-> "2024-01-01"],
          [t |-> "object", id |-> "id2"]}
  ELSE IF entityType = "kv_namespaces"
    THEN {[t |-> "object", id |-> "id1", title |-> "sessions"],
          [t |-> "object", id |-> "id2", title |-> "cache"]}
  ELSE IF entityType = "d1_databases"
    THEN {[t |-> "object", uuid |-> "id1", name |-> "main", num_tables |-> 2,
           file_size |-> 1536],
          [t |-> "object", uuid |-> "id2", name |-> "empty"]}
  ELSE IF entityType = "r2_buckets"
    THEN {[t |-> "object", name |-> "assets", location |-> "weur",
           creation_date |-> "2024-01-01"],
          [t |-> "object", name |-> "logs"]}
  ELSE IF entityType = "pages_projects"
    THEN {[t |-> "object", name |-> "site", subdomain |-> "site",
           domains |-> Array(<<Str("example.com")>>), created_on |-> "2024-01-01"],
          [t |-> "object", name |-> "docs", subdomain |-> "docs"]}
  ELSE IF entityType = "deployments"
    THEN {[t |-> "object", short_id |-> "id1", environment |-> "production",
           url |-> "https://id1.site.pages.dev",
           stages |-> Array(<<[t |-> "object", name |-> "queued", status |-> "success"],
                              [t |-> "object", name |-> "build", status |-> "failure"]>>),
           created_on |-> "2024-01-01"],
          [t |-> "object", short_id |-> "id2", environment |-> "preview",
           url |-> "https://id2.site.pages.dev"]}
  ELSE IF entityType = "load_balancers"
    THEN {[t |-> "object", id |-> "id1", name |-> "lb.example.com", enabled |-> TRUE,
           default_pools |-> Array(<<Str("pool1"), Str("pool2")>>),
           steering_policy |-> "geo"],
          [t |-> "object", id |-> "id2", name |-> "lb.example.org",
           default_pools |-> Array(<<>>)]}
  ELSE {[t |-> "object", name |-> "key1"], [t |-> "object", name |-> "key2"]}

\* the arrays of an entity type
ItemListsOf(entityType) == {Array(q) : q \in SeqsUpTo(ItemsOf(entityType), MaxItems)}

\* what a handler passes to formatResponse: a paginated collection with or
\* without metadata, the key listing with or without its cursor, a bare array,
\* a single entity, a scalar, or the undefined result of a 204
DataOf(entityType) ==
  {createPaginatedResponse(items, Undefined).value : items \in ItemListsOf(entityType)}
    \cup {createPaginatedResponse(items, [t |-> "object", page |-> 1, per_page |-> 20,
                                          count |-> Len(items.items),
                                          total_count |-> MaxItems + 1,
                                          total_pages |-> 2, cursor |-> UNDEFINED]).value :
            items \in ItemListsOf(entityType)}
    \cup {[t |-> "object", items |-> items, count |-> Len(items.items),
           hasMore |-> Truthy(cursor), cursor |-> cursor] :
            items \in ItemListsOf(entityType), cursor \in {UNDEFINED, "cursor1"}}
    \cup ItemListsOf(entityType)
    \cup ItemsOf(entityType)
    \cup {Str("text"), Num(5), NaN, Bool(TRUE), JsonNull, Undefined}

\* the failure values a handler catches
FailureValues ==
  {AuthenticationError(NoCredentialsMessage), AuthenticationError(AuthFailedMessage),
   RateLimitError(RateLimitMessage, Num(60)), RateLimitError(RateLimitMessage, NaN),
   TypeError, SyntaxError, FetchError}
    \cup {CloudflareApiError(message, status) :
            message \in {"Invalid zone name", UnknownApiErrorMessage, "API error: 500"},
            status \in {200, 400, 404, 500, 503}}

FormatCalls ==
  UNION {{[fn |-> "formatResponse", data |-> data, format |-> format,
           entityType |-> entityType] :
            data \in DataOf(entityType), format \in {"json", "markdown"}} :
         entityType \in EntityTypes}
    \cup {[fn |-> "formatErrorResponse", error |-> error] : error \in FailureValues}

\* the value a JSON text encodes: what JSON.stringify leaves of a value
RECURSIVE Encoded(_)
Encoded(v) ==
  IF v.t \in {"undefined", "NaN"} THEN JsonNull
  ELSE IF v.t = "array" THEN Array([i \in 1..Len(v.items) |-> Encoded(v.items[i])])
  ELSE IF v.t = "object"
    THEN [k \in {k \in DOMAIN v : k = "t" \/ Defined(v, k)} |->
            IF k = "t" \/ k \in PrimitiveKeys THEN v[k] ELSE Encoded(v[k])]
  ELSE v

\* the values whose JSON texts can occur here, and their texts
JsonValues ==
  {Encoded(data) : data \in UNION {DataOf(entityType) : entityType \in EntityTypes} \ {Undefined}}

JsonTexts == [v \in JsonValues |-> JsonString(v, "")]

\* JSON.parse: the value the text encodes, or a SyntaxError
JSONparse(text) ==
  IF \E v \in JsonValues : JsonTexts[v] = text
    THEN Returned(CHOOSE v \in JsonValues : JsonTexts[v] = text)
  ELSE Thrown(SyntaxError)

FormatInit ==
  /\ ClientUnused
  /\ PaginationIdle
  /\ WorkerIdle
  /\ fmCall \in FormatCalls
  /\ fmReturn = <<>>

\* the variables outside the formatters
beyondFormat == <<vars, pgVars, mcpVars, seqVars, toolVars>>

FormatResponse ==
  /\ fmCall.fn = "formatResponse"
  /\ fmReturn = <<>>
  /\ fmReturn' = <<formatResponse(fmCall.data, fmCall.format, fmCall.entityType)>>
  /\ UNCHANGED <<fmCall, beyondFormat>>

\* the caller parses the text of a JSON block
ParseText ==
  /\ fmCall.fn = "formatResponse"
  /\ fmCall.format = "json"
  /\ Len(fmReturn) = 1
  /\ fmReturn' = Append(fmReturn, JSONparse(fmReturn[1].value.content[1].text))
  /\ UNCHANGED <<fmCall, beyondFormat>>

FormatErrorResponse ==
  /\ fmCall.fn = "formatErrorResponse"
  /\ fmReturn = <<>>
  /\ fmReturn' = <<Returned(formatErrorResponse(fmCall.error))>>
  /\ UNCHANGED <<fmCall, beyondFormat>>

FormatNext ==
  \/ FormatResponse
  \/ ParseText
  \/ FormatErrorResponse

SpecFormat == FormatInit /\ [][FormatNext]_<<vars, beyondClient>>

\* ---- C22: the JSON projection and its round trip ----

\* a value without its undefined-valued properties, at every depth
RECURSIVE WithoutUndefined(_)
WithoutUndefined(v) ==
  IF v.t = "array"
    THEN Array([i \in 1..Len(v.items) |-> WithoutUndefined(v.items[i])])
  ELSE IF v.t = "object"
    THEN [k \in {k \in DOMAIN v : k = "t" \/ Defined(v, k)} |->
            IF k = "t" \/ k \in PrimitiveKeys THEN v[k] ELSE WithoutUndefined(v[k])]
  ELSE v

\* deep equality that takes an undefined-valued property for an absent one
DeepEqual(a, b) == WithoutUndefined(a) = WithoutUndefined(b)

\* a JSON projection whose text has been parsed
JsonParsed ==
  /\ fmCall.fn = "formatResponse"
  /\ fmCall.format = "json"
  /\ Len(fmReturn) = 2

\* C22: for any result value passed to formatResponse with format 'json'
\* (paginated collection, bare array, single entity, scalar, or the undefined
\* result of a 204 call), parsing the text of the produced block yields a
\* value deep-equal to the input.
C22_JsonRoundTrips ==
  JsonParsed =>
    /\ fmReturn[2].tag = "returned"
    /\ DeepEqual(fmReturn[2].value, fmCall.data)

\* ---- C26: delete tools answered with 204 ----

\* the names of the delete tools
DeleteTools ==
  {t.name : t \in {u \in RegisteredTools :
                     /\ Len(u.name) > 18
                     /\ SubSeq(u.name, 1, 18) = "cloudflare_delete_"}}

\* a delete tool whose provider call was answered with 204 has finished
DeletedWith204 ==
  /\ tool /= NoTool
  /\ tool.name \in DeleteTools
  /\ pc = "done"
  /\ response.status = 204
  /\ block /= Pending

\* C26: for every delete tool (delete zone, delete DNS record, delete worker,
\* delete KV namespace/value, delete D1 database, delete R2 bucket, delete
\* Pages project/deployment, delete firewall rule), a provider answer of 204
\* ends in a success response, never in an error response.
C26_NoContentDeleteSucceeds ==
  DeletedWith204 => block.tag = "returned" /\ ~IsErrorBlock(block.value)

\* ---- C23: the table of a bare array and of a paginated collection ----

\* the markdown projection of a non-empty bare array of a known entity type
\* has returned
ArrayRendered ==
  /\ fmCall.fn = "formatResponse"
  /\ fmCall.format = "markdown"
  /\ fmCall.entityType \in KnownEntityTypes
  /\ fmCall.data.t = "array"
  /\ Len(fmCall.data.items) > 0
  /\ Len(fmReturn) = 1

\* the same items inside a paginated wrapper
Wrapped(items) == createPaginatedResponse(items, Undefined).value

\* C23: for every known entity-type tag (zones, dns_records, workers,
\* kv_namespaces, d1_databases, r2_buckets, pages_projects, deployments,
\* load_balancers) and every non-empty item list, the table rendered for the
\* bare array equals the table rendered for the same items inside a paginated
\* wrapper: the paginated text is its heading followed by the array's text.
C23_SameTableDispatch ==
  ArrayRendered =>
    LET paginated == formatResponse(Wrapped(fmCall.data), "markdown", fmCall.entityType)
    IN IF fmReturn[1].tag = "thrown" \/ paginated.tag = "thrown"
         THEN fmReturn[1].tag = paginated.tag
       ELSE paginated.value.content[1].text
              = Join(Append(PaginatedHeading(Wrapped(fmCall.data), fmCall.entityType),
                            fmReturn[1].value.content[1].text), "\n")

\* ---- C24: the retryable suffix of an error projection ----

\* the text occurs in the string
OccursIn(text, s) ==
  \E i \in 1..(Len(s) - Len(text) + 1) : SubSeq(s, i, i + Len(text) - 1) = text

\* an error projection has returned
ErrorProjected == fmCall.fn = "formatErrorResponse" /\ Len(fmReturn) = 1

\* C24: for any failure value, the human-readable message of the error block
\* carries the '(retryable)' suffix if and only if the error's retryable flag
\* is set, whichever of the error kinds (ApiError, RateLimitError,
\* AuthenticationError, other) the value is.
C24_RetryableSuffix ==
  ErrorProjected =>
    (OccursIn(" (retryable)\"", fmReturn[1].value.content[1].text)
       <=> Retryable(fmCall.error))

C24_Witness ==
  /\ ErrorProjected
  /\ fmCall.error.name = "CloudflareApiError"
  /\ Retryable(fmCall.error)
  /\ OccursIn(" (retryable)\"", fmReturn[1].value.content[1].text)

\* ---- C25: a JSON-array argument that does not parse ----

\* the invoked tool was given an argument that is no JSON array
BadArrayArgument ==
  /\ tool /= NoTool
  /\ tool.argument \in {"malformed", "notArray"}

\* C25: for every tool that takes a JSON-array-shaped string argument (purge
\* cache by url/tag/host, D1 query params, DNS analytics dimensions/metrics),
\* an argument that fails to parse as a JSON array is handled locally: no
\* provider call is made for that invocation, and the tool returns an error
\* text block with an explicit format hint, flagged as error.
C25_BadArgumentHandledLocally ==
  BadArrayArgument =>
    /\ fetched = <<>>
    /\ block /= Pending
    /\ block.tag = "returned"
    /\ IsErrorBlock(block.value)
    /\ OccursIn("must be a valid JSON array", block.value.content[1].text)

\* ---- C21: the end of a key listing ----

\* the key-listing tool has finished after listKvKeys returned
KvKeysListed ==
  /\ tool /= NoTool
  /\ tool.name = "cloudflare_list_kv_keys"
  /\ pc = "done"
  /\ outcome.tag = "returned"
  /\ block /= Pending

\* the cursor field of the response's pagination metadata
MetadataCursor ==
  IF dispatched.value.result_info = Undefined THEN UNDEFINED
  ELSE dispatched.value.result_info.cursor

\* the text of the tool's block
BlockText == block.value.content[1].text

\* the tool's block reports hasMore = true
ReportsHasMore ==
  IF tool.format = "json" THEN OccursIn("\"hasMore\": true", BlockText)
  ELSE OccursIn("**More available:** Yes", BlockText)

\* the tool's block reports hasMore = false
ReportsNoMore ==
  IF tool.format = "json" THEN OccursIn("\"hasMore\": false", BlockText)
  ELSE ~OccursIn("**More available:**", BlockText)

\* the tool's JSON block carries the cursor, or no cursor when there is none
PassesCursorOn(cursor) ==
  tool.format = "json" =>
    IF cursor = UNDEFINED THEN ~OccursIn("\"cursor\"", BlockText)
    ELSE OccursIn("\"cursor\": " \o Quoted(cursor), BlockText)

C27_GateAgreesWithClient ==
  /\ \A c \in TenantCredentials :
       validateCredentials(c).tag = "returned" <=> getAuthHeaders(c).tag = "returned"
  /\ \A r \in Requests :
       /\ (mcp[r].phase /= "none" /\ mcp[r].validation /= Pending) =>
            (mcp[r].validation.tag = "returned"
               <=> getAuthHeaders(mcp[r].credentials).tag = "returned")
       /\ Served(r) =>
            /\ getAuthHeaders(ClientAt(mcp[r].server.client).credentials).tag = "returned"
            /\ (mcp[r].phase = "responded" /\ mcp[r].response.body = [status |-> "tool result"])
                 => Len(mcp[r].fetched) = 1

C27_Witness ==
  \E r \in Requests :
    /\ Served(r)
    /\ mcp[r].phase = "responded"
    /\ mcp[r].response.body = [status |-> "tool result"]
    /\ mcp[r].credentials.apiToken = UNDEFINED
    /\ "X-Auth-Key" \in DOMAIN mcp[r].fetched[1]

\* ---- C28: validation comes first ----

\* the headers hold neither a token nor a complete email+key pair
Holds(headers, name) == name \in DOMAIN headers /\ headers[name] /= ""

LacksBoth(headers) ==
  /\ ~Holds(headers, "X-CF-API-Token")
  /\ ~(Holds(headers, "X-CF-API-Email") /\ Holds(headers, "X-CF-API-Key"))

\* C28: a POST /mcp request whose headers hold neither a token nor a complete
\* email+key pair is answered with HTTP 401, and for that request no server
\* is built, no client is constructed, and no outbound provider call ever
\* occurs.
C28_UnauthorizedBeforeAnythingElse ==
  \A r \in Requests :
    (/\ mcp[r].phase /= "none"
     /\ mcp[r].request.pathname = "/mcp"
     /\ mcp[r].request.method = "POST"
     /\ LacksBoth(mcp[r].request.headers)) =>
      /\ mcp[r].phase = "responded"
      /\ mcp[r].response.status = 401
      /\ mcp[r].server = NoServer
      /\ \A o \in heap : o.ref /= r
      /\ mcp[r].fetched = <<>>

C28_Witness ==
  \E r, q \in Requests :
    /\ mcp[r].phase = "responded"
    /\ mcp[r].request.pathname = "/mcp"
    /\ mcp[r].request.method = "POST"
    /\ DOMAIN mcp[r].request.headers = {"X-CF-API-Email"}
    /\ mcp[r].response.status = 401
    /\ mcp[q].phase = "awaiting"

\* ---- C29: precedence of the status over the body ----

\* a dispatcher has classified the provider's response
Classified == pc = "done" /\ response /= NoResponse

\* C29: status classification takes precedence over the body in the fixed
\* order 429, then 401/403, then 204, then envelope: a response with status
\* 429, 401 or 403 yields RateLimitError or AuthenticationError whatever its
\* body and its body is never read, and every response maps to exactly one
\* of the outcomes RateLimitError, AuthenticationError, empty success,
\* ApiError, or returned result.
C29_StatusBeforeBody ==
  Classified =>
    /\ response.status = 429 =>
         FailedWith(dispatched, "RateLimitError") /\ bodyRead = "none"
    /\ response.status \in {401, 403} =>
         FailedWith(dispatched, "AuthenticationError") /\ bodyRead = "none"
    /\ \/ dispatched.tag = "returned"
       \/ /\ dispatched.tag = "thrown"
          /\ dispatched.error.name
               \in {"RateLimitError", "AuthenticationError", "CloudflareApiError"}

\* ---- C30: testConnection never fails ----

\* the connection test tool has finished
ConnectionTested ==
  /\ tool /= NoTool
  /\ tool.name = "cloudflare_test_connection"
  /\ pc = "done"
  /\ block /= Pending

\* C30: for every outcome of its single getUser call testConnection returns
\* a record, with connected = true only when getUser succeeded and with
\* connected = false plus the error's message for every failure (missing
\* credentials, 429, 401/403, ApiError, transport error), so the
\* cloudflare_test_connection tool never returns a block flagged as error
\* for such failures.  The failure values, the one for missing credentials
\* among them, are put to the method and the handler while no tool runs.
C30_TestConnectionNeverFails ==
  /\ tool = NoTool =>
       \A e \in FailureValues :
         LET result == TestConnectionResult(Thrown(e))
         IN /\ result = Returned([t |-> "object", connected |-> FALSE,
                                  message |-> e.message])
            /\ ~IsErrorBlock(Handler(ToolNamed("cloudflare_test_connection"), "none",
                                     result).value)
  /\ ConnectionTested =>
       /\ Len(fetched) = 1
       /\ outcome.tag = "returned"
       /\ outcome.value.connected => dispatched.tag = "returned"
       /\ dispatched.tag = "thrown" =>
            /\ ~outcome.value.connected
            /\ outcome.value.message = dispatched.error.message
       /\ block.tag = "returned"
       /\ ~IsErrorBlock(block.value)
       /\ BlockText = JSONstringify(outcome.value)

C30_Witness ==
  /\ ConnectionTested
  /\ FailedWith(dispatched, "RateLimitError")
  /\ ~outcome.value.connected
  /\ OccursIn("\"connected\": false", BlockText)
  /\ ~IsErrorBlock(block.value)

====
